---- MODULE Spec2Model ----
(***************************************************************************)
(* The closed-loop orchestrator of the repository: the streaming bridge    *)
(* (bridge_server.py, _chat_sse) and the command-line client               *)
(* (deepseek_mcp_cli.py, run_closed_loop).  One run is modelled: the query *)
(* is received, the tools are discovered, and the loop alternates between  *)
(* LLM requests and tool dispatch until it returns or raises.  Spec is     *)
(* that run; SpecConfig is the same run under every configuration of the   *)
(* credential; SpecRuns is several runs side by side (bridge) or one after *)
(* the other (the cli's interactive mode).                                 *)
(*                                                                         *)
(* Conventions.  A Python dict is a record; a missing key or the value     *)
(* None is the string None; an optional object is a sequence of length 0   *)
(* or 1; a formatted string (f-string, str(e)) is the sequence of its      *)
(* parts; a parsed JSON value is [kind, v]; json.dumps(x) is [json |-> x]. *)
(* Texts that are Chinese in the source are given in English.              *)
(***************************************************************************)
EXTENDS Integers, Sequences, FiniteSets, TLC

VARIABLES
    mode,           \* "bridge" (_chat_sse) or "cli" (run_closed_loop)
    verbose,        \* the verbose flag
    query,          \* the query parameter
    config,         \* where a credential is configured: environment, env.yaml, --deepseek-api-key
    api_key,        \* the credential the run resolved ("" when it found none)
    max_steps,      \* the step budget
    pc,             \* the position of the run in its code
    events,         \* bridge: the SSE events yielded; cli: the lines printed
    tools,          \* tools: the schema descriptors returned by create_tools
    tool_executors, \* the keys of adapter.tool_executors, in insertion order
    messages,       \* the transcript
    step,           \* the loop variable of "for step in range(1, max_steps + 1)"
    tool_calls,     \* the tool calls of the current step
    idx,            \* the position in tool_calls of the call handled next
    llm_requests,   \* the bodies posted to /chat/completions, in order
    responses,      \* the outcomes of those posts, in order
    invocations,    \* the executor invocations, in order
    dispatched,     \* the tool calls handled, in order, with what became of them
    llm_state,      \* "none", "open" or "closed": the LLM HTTP client
    close_count,    \* how many times the LLM client was closed
    disconnected,   \* whether the subscriber has gone away
    gone_at,        \* where the run stood when the subscriber went away
    outcome,        \* how the run ended
    discoveries,    \* the tool discoveries attempted, in order, by how they ended
    exit,           \* cli: the exit status of the process and what it left on stderr
    runs,           \* the locals of several runs of the loop, side by side
    endpoint,       \* the assistant messages the LLM endpoint answers with
    first,          \* what the first of two runs on the same inputs was given and did
    finance         \* the MCPFinanceClient object of finance_mcp_client.py

vars == <<mode, verbose, query, config, api_key, max_steps, pc, events, tools,
          tool_executors, messages, step, tool_calls, idx, llm_requests,
          responses, invocations, dispatched, llm_state, close_count,
          disconnected, gone_at, outcome, discoveries, exit, runs, endpoint,
          first, finance>>

\* ------------------------------------------------------------------ bounds

\* The largest step budget the runs are given.
MaxStepsBound == 3

\* The largest step budget of the runs made under every configuration.
ConfigStepsBound == 1

\* ------------------------------------------------------------- constants

None == "None"

EmptyObj == [k \in {} |-> ""]

DEFAULT_MCP_SERVER_URL == "http://127.0.0.1:19420/"

DEFAULT_DEEPSEEK_BASE_URL == "https://api.deepseek.com/v1"

DEFAULT_DEEPSEEK_MODEL == "deepseek-chat"

SYSTEM_PROMPT == "You are a finance assistant. Prefer tools for external data. Answer in Chinese, structured."

MSG_MISSING_QUERY == <<"missing query parameter">>

MSG_MISSING_KEY == <<"missing DEEPSEEK_API_KEY (set the environment variable or env.yaml)">>

MSG_NO_TOOLS == <<"no MCP tools found: check that the MCP server (SSE) is up and server_url is right">>

MSG_EMPTY_BRIDGE == <<"DeepSeek returned an empty message">>

MSG_EMPTY_CLI == <<"DeepSeek returned an empty message, cannot continue">>

MsgBudgetBridge(n) == <<"reached max_steps=", ToString(n), " without finishing (possibly a call loop)">>

MsgBudgetCli(n) == <<"reached max_steps=", ToString(n), " without finishing. Tool output may be insufficient or the model is looping.">>

MsgHttp(status, text) == <<"DeepSeek HTTP ", ToString(status), ": ", text>>

MsgNotFound(name) == <<"tool executor not found for: ", name>>

\* ------------------------------------------------------------ the inputs

Modes == {"bridge", "cli"}

Queries == {"", "echo 1"}

ApiKeys == {"", "sk-1234"}

MaxStepsInputs == (-1) .. MaxStepsBound

\* ------------------------------------------------------ the configuration

\* A value of env.yaml: the YAML null (Python's None) or a string.
YamlNull == [kind |-> "null"]

YamlStr(s) == [kind |-> "str", v |-> s]

\* str(v) on the values of env.yaml: str(None) is the word None.
Str(v) == IF v.kind = "null" THEN "None" ELSE v.v

\* Where a credential can be configured.  env: os.getenv("DEEPSEEK_API_KEY"),
\* nothing when the variable is unset; yaml: the DEEPSEEK_API_KEY entry of
\* what _load_env_yaml returns, nothing when the file or the key is absent;
\* arg: --deepseek-api-key, which only the cli has.
EnvValues == {<<>>, <<"  ">>, <<"sk-1234">>}

YamlValues == {<<>>, <<YamlStr("")>>, <<YamlNull>>, <<YamlStr("sk-5678")>>}

ArgValues == {<<>>, <<"sk-9999">>}

Configs == [env : EnvValues, yaml : YamlValues, arg : ArgValues]

\* The two configurations of the runs of Spec: no credential anywhere, and
\* a credential in the environment.
BaseConfigs ==
    { [env |-> <<>>, yaml |-> <<>>, arg |-> <<>>],
      [env |-> <<"sk-1234">>, yaml |-> <<>>, arg |-> <<>>] }

\* str.strip() on the configured values.
StripConfig(s) == IF s = "  " THEN "" ELSE s

\* _get_config_value(key, env_yaml) with default None: the stripped
\* environment variable if it is set and not blank, else the stripped str()
\* of the env.yaml entry if there is one and it is not blank, else nothing.
_get_config_value(env, yaml) ==
    IF env # <<>> /\ StripConfig(env[1]) # "" THEN <<StripConfig(env[1])>>
    ELSE IF yaml # <<>> /\ StripConfig(Str(yaml[1])) # ""
    THEN <<StripConfig(Str(yaml[1]))>>
    ELSE <<>>

\* The credential a run resolves, "" when "not api_key" holds.
\* bridge: api_key = _get_config_value("DEEPSEEK_API_KEY", env_yaml)
\* cli: api_key = args.deepseek_api_key or _get_config_value(...)
ResolveApiKey(m, cfg) ==
    LET v == _get_config_value(cfg.env, cfg.yaml)
    IN  IF m = "cli" /\ cfg.arg # <<>> /\ cfg.arg[1] # "" THEN cfg.arg[1]
        ELSE IF v = <<>> THEN "" ELSE v[1]

\* ------------------------------------------- the tool server (discovery)

\* The tool names, in the order Python's sorted() puts them.
NameOrder == <<"echo", "nope", "quote">>

Rank(name) == CHOOSE i \in 1 .. Len(NameOrder) : NameOrder[i] = name

RECURSIVE Insert(_, _)
Insert(x, s) ==
    IF s = <<>> THEN <<x>>
    ELSE IF Rank(x) <= Rank(Head(s)) THEN <<x>> \o s
    ELSE <<Head(s)>> \o Insert(x, Tail(s))

\* sorted(names)
RECURSIVE sorted(_)
sorted(names) ==
    IF names = <<>> THEN <<>> ELSE Insert(Head(names), sorted(Tail(names)))

\* One schema descriptor of the list create_tools returns.
ToolDescriptor(name) ==
    [type |-> "function", function |-> [name |-> name]]

\* What discovery can end in: the MCP connection fails, listing the tools
\* fails, or the tool names come back in the server's order.
Discoveries ==
    { [kind |-> "connect_failed", names |-> <<>>],
      [kind |-> "list_failed", names |-> <<>>],
      [kind |-> "ok", names |-> <<>>],
      [kind |-> "ok", names |-> <<"quote", "echo">>] }

MsgDiscovery(kind) == <<"MCP server: ", kind>>

\* What an executor can do with an argument object: return a structured
\* result (echo returns its arguments, quote a fixed quote) or fail.
ExecutorOutcomes(name, args) ==
    { [kind |-> "ok",
       value |-> [kind |-> "dict",
                  v |-> IF name = "echo" THEN args ELSE [price |-> "100"]],
       error |-> <<>>],
      [kind |-> "raise",
       value |-> [kind |-> "dict", v |-> EmptyObj],
       error |-> <<"tool call failed: ", name>>] }

\* ------------------------------------------------------- the LLM endpoint

\* One entry of a tool_calls array on the wire.
WireCall(id, name, arguments) ==
    [id |-> id, type |-> "function",
     function |-> [name |-> name, arguments |-> arguments]]

\* One assistant message on the wire.
WireMsg(content, calls, function_call) ==
    [role |-> "assistant", content |-> content, tool_calls |-> calls,
     function_call |-> function_call]

ARGS_X1 == "{\"x\": 1}"

ARGS_BAD == "{not json"

ARGS_LIST == "[1]"

ARGS_NUM == "7"

ARGS_STR == "\"a\""

ARGS_NULL == "null"

\* The assistant messages the endpoint answers with.
WireMessages ==
    { WireMsg("done", <<>>, <<>>),
      WireMsg(" hi ", <<>>, <<>>),
      WireMsg(None, <<>>, <<>>),
      WireMsg(None, <<WireCall("c1", "echo", ARGS_X1)>>, <<>>),
      WireMsg(None, <<WireCall(None, "echo", None)>>, <<>>),
      WireMsg("looking", <<WireCall("c2", "nope", ARGS_X1)>>, <<>>),
      WireMsg(None, <<WireCall("c3", "echo", ARGS_BAD)>>, <<>>),
      WireMsg(None, <<WireCall("c4", "quote", ARGS_LIST),
                      WireCall("c5", "echo", ARGS_X1)>>, <<>>),
      WireMsg(None, <<WireCall(None, "quote", ARGS_BAD),
                      WireCall(None, "nope", "")>>, <<>>),
      WireMsg(None, <<>>, <<[name |-> "quote", arguments |-> None]>>),
      WireMsg("done", <<>>, <<[name |-> "", arguments |-> ARGS_X1]>>) }

\* The HTTP responses of POST /chat/completions: a status, the body as text
\* (read on failure) and the body as JSON (read on success).
HttpResponses(msgs) ==
    { [status_code |-> 500, text |-> "upstream down", json |-> [choices |-> <<>>]],
      [status_code |-> 401, text |-> "unauthorized", json |-> [choices |-> <<>>]],
      [status_code |-> 200, text |-> "", json |-> [choices |-> <<>>]],
      [status_code |-> 200, text |-> "", json |-> [choices |-> <<[message |-> <<>>]>>]] }
    \cup { [status_code |-> 200, text |-> "",
            json |-> [choices |-> <<[message |-> <<m>>]>>]] : m \in msgs }

\* DeepSeekOpenAICompat.chat_completions: the body that is posted.
ChatPayload(msgs, tls, tool_choice) ==
    [model |-> DEFAULT_DEEPSEEK_MODEL,
     messages |-> msgs,
     temperature |-> "0.2",
     tools |-> tls,
     tool_choice |-> IF tool_choice # <<>> /\ tls # <<>> THEN tool_choice ELSE <<>>]

\* HttpFailed taking only the 5xx statuses for failures.
HttpFailed_ServerOnly(resp) == resp.status_code \div 100 = 5

\* DeepSeekOpenAICompat.chat_completions: whether the response raises.
HttpFailed(resp) == resp.status_code \div 100 # 2

\* --------------------------------------------------------- pure functions

\* _extract_message answering a bare assistant message when there is none.
_extract_message_Default(resp_json) ==
    IF resp_json.choices = <<>> \/ resp_json.choices[1].message = <<>>
    THEN <<WireMsg(None, <<>>, <<>>)>>
    ELSE resp_json.choices[1].message

\* _extract_message: the first choice's message, or nothing.
_extract_message(resp_json) ==
    IF resp_json.choices = <<>> THEN <<>>
    ELSE resp_json.choices[1].message

\* _extract_tool_calls without the legacy fallback.
_extract_tool_calls_ModernOnly(msg) == msg.tool_calls

\* _extract_tool_calls: the tool_calls list, or the legacy function_call as a
\* one-element list, or the empty list.
_extract_tool_calls(msg) ==
    IF msg.tool_calls # <<>> THEN msg.tool_calls
    ELSE IF msg.function_call # <<>> /\ msg.function_call[1].name \notin {None, ""}
    THEN << [id |-> "legacy_function_call",
             type |-> "function",
             function |-> [name |-> msg.function_call[1].name,
                           arguments |-> IF msg.function_call[1].arguments \in {None, ""}
                                         THEN "{}"
                                         ELSE msg.function_call[1].arguments]] >>
    ELSE <<>>

\* json.loads on the argument strings the endpoint sends: whether it parses,
\* and the value.
JsonParses(s) == s \in {"{}", ARGS_X1, ARGS_LIST, ARGS_NUM, ARGS_STR, ARGS_NULL}

JsonValue(s) ==
    IF s = ARGS_X1 THEN [kind |-> "dict", v |-> [x |-> "1"]]
    ELSE IF s = ARGS_LIST THEN [kind |-> "list", v |-> [item1 |-> "1"]]
    ELSE IF s = ARGS_NUM THEN [kind |-> "int", v |-> [value |-> "7"]]
    ELSE IF s = ARGS_STR THEN [kind |-> "str", v |-> [value |-> "a"]]
    ELSE IF s = ARGS_NULL THEN [kind |-> "NoneType", v |-> [value |-> None]]
    ELSE [kind |-> "dict", v |-> EmptyObj]

\* _safe_json_loads answering {} when the string does not parse.
_safe_json_loads_Empty(s) ==
    IF s = "" THEN [kind |-> "dict", v |-> EmptyObj]
    ELSE IF JsonParses(s) THEN JsonValue(s)
    ELSE [kind |-> "dict", v |-> EmptyObj]

\* _safe_json_loads
_safe_json_loads(s) ==
    IF s = "" THEN [kind |-> "dict", v |-> EmptyObj]
    ELSE IF JsonParses(s) THEN JsonValue(s)
    ELSE [kind |-> "dict", v |-> [_raw |-> s]]

\* str.strip() on the contents the endpoint sends.
strip(s) == IF s = " hi " THEN "hi" ELSE s

\* FinalText without the "or" and the strip: final_text = msg.get("content").
FinalText_Raw(msg) == msg.content

\* final_text = (msg.get("content") or "").strip()
FinalText(msg) == strip(IF msg.content = None THEN "" ELSE msg.content)

\* args_str = fn.get("arguments") or "{}"
ArgsStr(call) ==
    IF call.function.arguments \in {None, ""} THEN "{}" ELSE call.function.arguments

\* The generated ids: f"call_{step}" and f"call_{step}_{idx}".
FmtCallStep(s) ==
    <<"call_1", "call_2", "call_3", "call_4", "call_5", "call_6">>[s]

FmtCallStepIdx(s, i) ==
    << <<"call_1_1", "call_1_2">>, <<"call_2_1", "call_2_2">>,
       <<"call_3_1", "call_3_2">>, <<"call_4_1", "call_4_2">>,
       <<"call_5_1", "call_5_2">>, <<"call_6_1", "call_6_2">> >>[s][i]

\* CallId with the id on the wire ignored: always the generated one.
CallId_Generated(m, call, s, i) ==
    IF m = "bridge" THEN FmtCallStep(s) ELSE FmtCallStepIdx(s, i)

\* call_id = call.get("id") or f"call_{step}"        (bridge)
\* call_id = call.get("id") or f"call_{step}_{idx}"  (cli)
CallId(m, call, s, i) ==
    IF call.id \notin {None, ""} THEN call.id
    ELSE IF m = "bridge" THEN FmtCallStep(s)
    ELSE FmtCallStepIdx(s, i)

\* ExecArgs without the isinstance test: executor(args).
ExecArgs_AsParsed(args) == args.v

\* executor(args if isinstance(args, dict) else {})
ExecArgs(args) == IF args.kind = "dict" THEN args.v ELSE EmptyObj

\* NotFoundResult listing the executors in insertion order, unsorted.
NotFoundResult_Unsorted(name, executors) ==
    [kind |-> "dict",
     v |-> [error |-> MsgNotFound(name), available |-> executors]]

\* The result of a call that names no registered executor.
NotFoundResult(name, executors) ==
    [kind |-> "dict",
     v |-> [error |-> MsgNotFound(name), available |-> sorted(executors)]]

\* json.dumps(tool_result, ensure_ascii=False)
dumps(value) == [json |-> value]

\* The tool-role message appended for a call.
ToolMessage(call_id, tool_result) ==
    [role |-> "tool", tool_call_id |-> call_id, content |-> dumps(tool_result)]

\* SeedMessages without the system prompt.
SeedMessages_UserOnly(q) == << [role |-> "user", content |-> q] >>

\* The transcript a run starts with.
SeedMessages(q) ==
    << [role |-> "system", content |-> SYSTEM_PROMPT],
       [role |-> "user", content |-> q] >>

IsRegistered(name, executors) ==
    \E i \in 1 .. Len(executors) : executors[i] = name

\* ------------------------------------------------- events and outcomes

\* _redact(s, keep_last=4) on the keys of ApiKeys.
_redact(s) ==
    IF s = "" THEN ""
    ELSE IF s = "None" THEN "****"
    ELSE IF s = "sk-1234" THEN "***1234"
    ELSE IF s = "sk-5678" THEN "***5678"
    ELSE IF s = "sk-9999" THEN "***9999"
    ELSE "***"

\* The SSE envelopes of _chat_sse, by their "type".
ErrorEvent(message) == [type |-> "error", message |-> message]

MetaEvent(n) ==
    [type |-> "meta", mcp_server_url |-> DEFAULT_MCP_SERVER_URL,
     deepseek_base_url |-> DEFAULT_DEEPSEEK_BASE_URL,
     deepseek_model |-> DEFAULT_DEEPSEEK_MODEL, max_steps |-> n]

StatusEvent == [type |-> "status", message |-> <<"connecting to the MCP server and listing tools...">>]

ToolsEvent(tls, vb) ==
    [type |-> "tools", count |-> Len(tls), tools |-> IF vb THEN <<tls>> ELSE <<>>]

RequestEvent(s, msgs, tls, vb) ==
    [type |-> "deepseek_request", step |-> s,
     preview |-> IF vb
                 THEN [model |-> DEFAULT_DEEPSEEK_MODEL, messages |-> msgs,
                       tools_count |-> Len(tls), tool_choice |-> "auto"]
                 ELSE [model |-> DEFAULT_DEEPSEEK_MODEL, tools_count |-> Len(tls)]]

ResponseEvent(s, msg, calls, vb) ==
    [type |-> "deepseek_response", step |-> s,
     message |-> IF vb THEN msg
                 ELSE [role |-> msg.role, content |-> msg.content, tool_calls |-> calls]]

FinalEvent(text) == [type |-> "final", content |-> text]

ToolCallEvent(name, args, args_str) ==
    [type |-> "tool_call", name |-> name, arguments |-> args, raw_arguments |-> args_str]

ToolResultEvent(name, tool_result) ==
    [type |-> "tool_result", name |-> name, result |-> tool_result]

\* The lines run_closed_loop and _interactive_main print, by what they say.
Line(line) == [type |-> "print", line |-> line]

LineBanner(key) == [type |-> "print", line |-> "banner", api_key |-> _redact(key)]

LineTools(tls, vb) ==
    <<[type |-> "print", line |-> "tools_found", count |-> Len(tls)]>>
    \o (IF vb THEN <<[type |-> "print", line |-> "tools_schema", tools |-> tls]>> ELSE <<>>)

LineStep(s, msgs, tls, vb) ==
    <<[type |-> "print", line |-> "step", step |-> s]>>
    \o (IF vb
        THEN <<[type |-> "print", line |-> "request_preview",
                preview |-> [model |-> DEFAULT_DEEPSEEK_MODEL, messages |-> msgs,
                             tools_count |-> Len(tls), tool_choice |-> "auto"]]>>
        ELSE <<>>)

LineRaw(resp_json, vb) ==
    IF vb THEN <<[type |-> "print", line |-> "raw_response", json |-> resp_json]>> ELSE <<>>

LineFinal(text) ==
    <<Line("no_tool_calls"), [type |-> "print", line |-> "final_text", content |-> text]>>

LineToolCalls(n) == [type |-> "print", line |-> "tool_calls", count |-> n]

LineToolCall(i, name, args_str) ==
    [type |-> "print", line |-> "tool", idx |-> i, name |-> name, arguments |-> args_str]

LineToolResult(tool_result, vb) ==
    IF vb THEN <<[type |-> "print", line |-> "tool_result", result |-> tool_result]>> ELSE <<>>

\* How a run ended.  kind: "running", "final", "error" (an error event, or
\* an exception out of run_closed_loop), "cancelled" (the bridge returned on
\* a disconnect) or "rejected" (the cli found no credential).  raised: an
\* exception left the function.
Running == [kind |-> "running", text |-> "", error |-> <<>>, raised |-> FALSE]

Final(text) == [kind |-> "final", text |-> text, error |-> <<>>, raised |-> FALSE]

Failed(message, raised) == [kind |-> "error", text |-> "", error |-> message, raised |-> raised]

Cancelled == [kind |-> "cancelled", text |-> "", error |-> <<>>, raised |-> FALSE]

Rejected == [kind |-> "rejected", text |-> "", error |-> MSG_MISSING_KEY, raised |-> FALSE]

\* The end of the cli process: its exit status and what the interpreter
\* wrote to stderr.  NotExited: the process is still running.
NotExited == [exited |-> FALSE, status |-> 0, stderr |-> <<>>]

Exited(status, stderr) == [exited |-> TRUE, status |-> status, stderr |-> stderr]

\* finance_mcp_client.py, MCPFinanceClient.__init__: no session, no context,
\* not connected.  log is the history of the operations made on the object.
NewFinanceClient ==
    [session |-> "none", context |-> "none", connected |-> FALSE, log |-> <<>>]

\* ----------------------------------------------------------------- Init

\* One run about to begin, under one of the configurations cfgs and with a
\* step budget of budgets.
InitRun(cfgs, budgets, msgs) ==
    /\ mode \in Modes
    /\ verbose \in BOOLEAN
    /\ query \in Queries
    /\ mode = "cli" => query # ""
    /\ config \in cfgs
    /\ mode = "bridge" => config.arg = <<>>
    /\ api_key = ResolveApiKey(mode, config)
    /\ max_steps \in budgets
    /\ discoveries = <<>>
    /\ exit = NotExited
    /\ runs = <<>>
    /\ endpoint = msgs
    /\ first = <<>>
    /\ finance = NewFinanceClient
    /\ pc = "start"
    /\ events = <<>>
    /\ tools = <<>>
    /\ tool_executors = <<>>
    /\ messages = <<>>
    /\ step = 0
    /\ tool_calls = <<>>
    /\ idx = 0
    /\ llm_requests = <<>>
    /\ responses = <<>>
    /\ invocations = <<>>
    /\ dispatched = <<>>
    /\ llm_state = "none"
    /\ close_count = 0
    /\ disconnected = FALSE
    /\ gone_at = <<>>
    /\ outcome = Running

Init ==
    /\ InitRun(BaseConfigs, MaxStepsInputs, WireMessages)
    /\ api_key \in ApiKeys

\* ------------------------------------------------------------ two runs

\* To compare two runs, the second is given what the first was given: the
\* record first[1] keeps the first run's tool server, the endpoint's
\* responses and the executors' outcomes, and while it lasts the second run
\* draws from it.  A single run (first = <<>>) draws freely.

\* A legacy response rewritten as the modern response with one call.
Modernised(resp) ==
    IF resp.json.choices = <<>> \/ resp.json.choices[1].message = <<>> THEN resp
    ELSE LET m == resp.json.choices[1].message[1]
         IN  IF m.tool_calls # <<>> \/ _extract_tool_calls(m) = <<>> THEN resp
             ELSE [resp EXCEPT !.json.choices[1].message[1] =
                       [m EXCEPT !.tool_calls = _extract_tool_calls(m),
                                 !.function_call = <<>>]]

Rewritten(kind, resp) == IF kind = "modern" THEN Modernised(resp) ELSE resp

ScriptedDiscoveries ==
    IF first = <<>> \/ first[1].discoveries = <<>> THEN Discoveries
    ELSE { d \in Discoveries :
             /\ d.kind = first[1].discoveries[1]
             /\ d.kind = "ok" => d.names = first[1].tool_executors }

ScriptedResponses ==
    IF first # <<>> /\ Len(responses) < Len(first[1].responses)
    THEN { Rewritten(first[1].kind, first[1].responses[Len(responses) + 1]) }
    ELSE HttpResponses(endpoint)

ScriptedOutcomes(name, args) ==
    IF /\ first # <<>>
       /\ Len(dispatched) < Len(first[1].dispatched)
       /\ first[1].dispatched[Len(dispatched) + 1].outcome # "not_found"
    THEN { o \in ExecutorOutcomes(name, args) :
             o.kind = first[1].dispatched[Len(dispatched) + 1].outcome }
    ELSE ExecutorOutcomes(name, args)

\* -------------------------------------------------------------- actions

\* Raise with the bridge's handler swallowing the exception: no error event.
Raise_Silent(e, pre) ==
    /\ events' = events \o pre
    /\ outcome' = Failed(e, mode = "cli")
    /\ pc' = IF llm_state = "open" THEN "closing" ELSE "done"

\* Raise with a failed discovery tried again instead of ending the run.
Raise_Retry(e, pre) ==
    /\ events' = IF mode = "bridge" /\ pc # "connect" THEN events \o pre \o <<ErrorEvent(e)>>
                 ELSE events \o pre
    /\ outcome' = IF pc = "connect" THEN outcome ELSE Failed(e, mode = "cli")
    /\ pc' = IF pc = "connect" THEN "connect"
             ELSE IF llm_state = "open" THEN "closing" ELSE "done"

\* Raise with the exception passing by the "finally" that closes the client.
Raise_NoFinally(e, pre) ==
    /\ events' = IF mode = "bridge" THEN events \o pre \o <<ErrorEvent(e)>>
                 ELSE events \o pre
    /\ outcome' = Failed(e, mode = "cli")
    /\ pc' = "done"

\* An exception e leaves the loop body after the events pre were emitted:
\* the bridge's "except Exception" turns it into an error event, the cli
\* lets it out of run_closed_loop.  Both go through "finally".
Raise(e, pre) ==
    /\ events' = IF mode = "bridge" THEN events \o pre \o <<ErrorEvent(e)>>
                 ELSE events \o pre
    /\ outcome' = Failed(e, mode = "cli")
    /\ pc' = IF llm_state = "open" THEN "closing" ELSE "done"

\* What a run emits before it turns to the tool server, given its query,
\* its credential and its budget: the bridge an error event or the meta
\* event, the cli the complaint about the credential or the banner block
\* with the masked credential.
StartOutput(m, q, key, n) ==
    IF m = "bridge"
    THEN IF q = "" THEN <<ErrorEvent(MSG_MISSING_QUERY)>>
         ELSE IF key = "" THEN <<ErrorEvent(MSG_MISSING_KEY)>>
         ELSE <<MetaEvent(n)>>
    ELSE IF key = "" THEN <<Line("missing_key")>>
         ELSE <<LineBanner(key)>>

\* _chat_sse up to the meta event; _interactive_main up to the banner of
\* run_closed_loop.
Start ==
    /\ pc = "start"
    /\ events' = StartOutput(mode, query, api_key, max_steps)
    /\ IF mode = "bridge"
       THEN IF query = ""
            THEN /\ outcome' = Failed(MSG_MISSING_QUERY, FALSE)
                 /\ pc' = "done"
                 /\ llm_state' = llm_state
            ELSE IF api_key = ""
            THEN /\ outcome' = Failed(MSG_MISSING_KEY, FALSE)
                 /\ pc' = "done"
                 /\ llm_state' = llm_state
            ELSE /\ outcome' = outcome
                 /\ pc' = "connect"
                 /\ llm_state' = "open"
       ELSE IF api_key = ""
            THEN /\ outcome' = Rejected
                 /\ pc' = "done"
                 /\ llm_state' = llm_state
            ELSE /\ outcome' = outcome
                 /\ pc' = "connect"
                 /\ llm_state' = llm_state
    /\ UNCHANGED <<config, discoveries, exit, runs, endpoint, first, finance,
                   mode, verbose, query, api_key, max_steps, tools, tool_executors,
                   messages, step, tool_calls, idx, llm_requests, responses,
                   invocations, dispatched, close_count, disconnected, gone_at>>

\* "async with MCPClient(servers) as mcp" and adapter.create_tools(mcp), up
\* to the seeding of the transcript.
Discover ==
    /\ pc = "connect"
    /\ \E d \in ScriptedDiscoveries :
        LET tls == [i \in 1 .. Len(d.names) |-> ToolDescriptor(d.names[i])]
            pre == IF mode = "bridge" THEN <<StatusEvent>> ELSE <<Line("connecting")>>
        IN  /\ discoveries' = Append(discoveries, d.kind)
            /\ IF d.kind = "connect_failed"
               THEN /\ Raise(MsgDiscovery(d.kind), <<>>)
                    /\ UNCHANGED <<tools, tool_executors, messages, step, llm_state>>
               ELSE IF d.kind = "list_failed"
               THEN /\ Raise(MsgDiscovery(d.kind), pre)
                    /\ UNCHANGED <<tools, tool_executors, messages, step, llm_state>>
               ELSE IF mode = "bridge" /\ tls = <<>>
               THEN /\ events' = events \o pre
                                  \o <<ToolsEvent(tls, verbose), ErrorEvent(MSG_NO_TOOLS)>>
                    /\ outcome' = Failed(MSG_NO_TOOLS, FALSE)
                    /\ pc' = "closing"
                    /\ tools' = tls
                    /\ tool_executors' = d.names
                    /\ UNCHANGED <<messages, step, llm_state>>
               ELSE /\ events' = events \o pre
                                  \o (IF mode = "bridge" THEN <<ToolsEvent(tls, verbose)>>
                                      ELSE LineTools(tls, verbose))
                    /\ tools' = tls
                    /\ tool_executors' = d.names
                    /\ messages' = SeedMessages(query)
                    /\ step' = 1
                    /\ llm_state' = "open"
                    /\ pc' = "step_top"
                    /\ outcome' = outcome
    /\ UNCHANGED <<config, exit, runs, endpoint, first, finance,
                   mode, verbose, query, api_key, max_steps, tool_calls, idx,
                   llm_requests, responses, invocations, dispatched, close_count, disconnected, gone_at>>

\* RangeExhausted with the range one step longer: range(1, max_steps + 2).
RangeExhausted_OneMore(s, n) == s > n + 1

\* "for step in range(1, max_steps + 1)": whether the range is used up.
RangeExhausted(s, n) == s > n

\* ObservesDisconnect with the check left out.
ObservesDisconnect_Never(m, gone) == FALSE

\* "if await request.is_disconnected(): return", which only the bridge has.
ObservesDisconnect(m, gone) == m = "bridge" /\ gone

\* The top of the loop body: the end of the range, the bridge's disconnect
\* check, and the announcement of the request.
StepTop ==
    /\ pc = "step_top"
    /\ IF RangeExhausted(step, max_steps)
       THEN IF mode = "bridge"
            THEN /\ events' = Append(events, ErrorEvent(MsgBudgetBridge(max_steps)))
                 /\ outcome' = Failed(MsgBudgetBridge(max_steps), FALSE)
                 /\ pc' = "closing"
            ELSE /\ events' = events
                 /\ outcome' = Failed(MsgBudgetCli(max_steps), TRUE)
                 /\ pc' = "closing"
       ELSE IF ObservesDisconnect(mode, disconnected)
       THEN /\ events' = events
            /\ outcome' = Cancelled
            /\ pc' = "closing"
       ELSE /\ events' = events \o
                         (IF mode = "bridge"
                          THEN <<RequestEvent(step, messages, tools, verbose)>>
                          ELSE LineStep(step, messages, tools, verbose))
            /\ outcome' = outcome
            /\ pc' = "llm_call"
    /\ UNCHANGED <<config, discoveries, exit, runs, endpoint, first, finance,
                   mode, verbose, query, api_key, max_steps, tools, tool_executors,
                   messages, step, tool_calls, idx, llm_requests, responses,
                   invocations, dispatched, llm_state, close_count, disconnected, gone_at>>

\* llm.chat_completions(messages=messages, tools=tools, tool_choice="auto")
\* and what the loop does with the response, up to the first tool call.
LLMCall ==
    /\ pc = "llm_call"
    /\ \E resp \in ScriptedResponses :
        LET msg == _extract_message(resp.json)
            calls == _extract_tool_calls(msg[1])
            raw == IF mode = "cli" THEN LineRaw(resp.json, verbose) ELSE <<>>
        IN  /\ llm_requests' = Append(llm_requests,
                                      [step |-> step,
                                       payload |-> ChatPayload(messages, <<tools>>, <<"auto">>)])
            /\ responses' = Append(responses, resp)
            /\ IF HttpFailed(resp)
               THEN /\ Raise(MsgHttp(resp.status_code, resp.text), <<>>)
                    /\ UNCHANGED <<messages, tool_calls, idx>>
               ELSE IF msg = <<>>
               THEN /\ IF mode = "bridge"
                       THEN /\ events' = Append(events, ErrorEvent(MSG_EMPTY_BRIDGE))
                            /\ outcome' = Failed(MSG_EMPTY_BRIDGE, FALSE)
                       ELSE /\ events' = events \o raw
                            /\ outcome' = Failed(MSG_EMPTY_CLI, TRUE)
                    /\ pc' = "closing"
                    /\ UNCHANGED <<messages, tool_calls, idx>>
               ELSE IF calls = <<>>
               THEN /\ events' = events \o
                                 (IF mode = "bridge"
                                  THEN <<ResponseEvent(step, msg[1], calls, verbose),
                                         FinalEvent(FinalText(msg[1]))>>
                                  ELSE raw \o LineFinal(FinalText(msg[1])))
                    /\ outcome' = Final(FinalText(msg[1]))
                    /\ pc' = "closing"
                    /\ UNCHANGED <<messages, tool_calls, idx>>
               ELSE /\ events' = events \o
                                 (IF mode = "bridge"
                                  THEN <<ResponseEvent(step, msg[1], calls, verbose)>>
                                  ELSE raw \o <<LineToolCalls(Len(calls))>>)
                    /\ messages' = Append(messages, msg[1])
                    /\ tool_calls' = calls
                    /\ idx' = 1
                    /\ outcome' = outcome
                    /\ pc' = "dispatch"
    /\ UNCHANGED <<config, discoveries, exit, runs, endpoint, first, finance,
                   mode, verbose, query, api_key, max_steps, tools, tool_executors,
                   step, invocations, dispatched, llm_state, close_count, disconnected, gone_at>>

\* What handling one call emits, from its announcement to its result: the
\* bridge's tool_call and tool_result events, the cli's lines.
CallEvents(m, i, name, args, args_str, invoked, tool_result, vb) ==
    IF m = "bridge"
    THEN <<ToolCallEvent(name, args, args_str), ToolResultEvent(name, tool_result)>>
    ELSE <<LineToolCall(i, name, args_str)>>
         \o (IF invoked THEN <<Line("calling_tool")>> ELSE <<>>)
         \o LineToolResult(tool_result, vb)

\* What a call whose executor raises has emitted by then.
CallEventsRaised(m, i, name, args, args_str) ==
    IF m = "bridge" THEN <<ToolCallEvent(name, args, args_str)>>
    ELSE <<LineToolCall(i, name, args_str), Line("calling_tool")>>

\* MoreCalls with the step left after its first call.
MoreCalls_FirstOnly(i, calls) == FALSE

\* "for call in tool_calls": whether a call is left after the i-th.
MoreCalls(i, calls) == i < Len(calls)

\* The body of "for call in tool_calls" for the call at idx.
Dispatch ==
    /\ pc = "dispatch"
    /\ LET call == tool_calls[idx]
           name == call.function.name
           args_str == ArgsStr(call)
           args == _safe_json_loads(args_str)
           call_id == CallId(mode, call, step, idx)
           record(kind, r, appended) ==
               [step |-> step, idx |-> idx, name |-> name, call_id |-> call_id,
                args_str |-> args_str, args |-> args, outcome |-> kind, result |-> r,
                msg_index |-> IF appended THEN Len(messages) + 1 ELSE 0,
                ev_index |-> Len(events) + 1]
           next_call == /\ idx' = IF MoreCalls(idx, tool_calls) THEN idx + 1 ELSE idx
                        /\ step' = IF MoreCalls(idx, tool_calls) THEN step ELSE step + 1
                        /\ pc' = IF MoreCalls(idx, tool_calls) THEN "dispatch" ELSE "step_top"
                        /\ outcome' = outcome
       IN  IF ~IsRegistered(name, tool_executors)
           THEN LET r == NotFoundResult(name, tool_executors)
                IN  /\ events' = events \o
                                 CallEvents(mode, idx, name, args, args_str, FALSE, r, verbose)
                    /\ messages' = Append(messages, ToolMessage(call_id, r))
                    /\ invocations' = invocations
                    /\ dispatched' = Append(dispatched, record("not_found", r, TRUE))
                    /\ next_call
           ELSE \E o \in ScriptedOutcomes(name, ExecArgs(args)) :
                /\ invocations' = Append(invocations,
                                         [step |-> step, idx |-> idx, name |-> name,
                                          args |-> ExecArgs(args), outcome |-> o.kind])
                /\ IF o.kind = "raise"
                   THEN /\ Raise(o.error, CallEventsRaised(mode, idx, name, args, args_str))
                        /\ dispatched' = Append(dispatched, record("raise", o.value, FALSE))
                        /\ UNCHANGED <<messages, idx, step>>
                   ELSE /\ events' = events \o
                                     CallEvents(mode, idx, name, args, args_str, TRUE,
                                                o.value, verbose)
                        /\ messages' = Append(messages, ToolMessage(call_id, o.value))
                        /\ dispatched' = Append(dispatched, record("ok", o.value, TRUE))
                        /\ next_call
    /\ UNCHANGED <<config, discoveries, exit, runs, endpoint, first, finance,
                   mode, verbose, query, api_key, max_steps, tools, tool_executors,
                   tool_calls, llm_requests, responses, llm_state, close_count,
                   disconnected, gone_at>>

\* Closing with the await on the client's close never returning.
Closing_Hangs ==
    /\ llm_state' = "closed"
    /\ close_count' = close_count
    /\ pc' = pc

\* "await llm.aclose()" (bridge), "await llm.close()" (cli): the client is
\* closed and the generator, or run_closed_loop, is left.
Closing ==
    /\ llm_state' = "closed"
    /\ close_count' = close_count + 1
    /\ pc' = "done"

\* "finally: await llm.aclose()" (bridge), "finally: await llm.close()" (cli).
Close ==
    /\ pc = "closing"
    /\ Closing
    /\ UNCHANGED <<config, discoveries, exit, runs, endpoint, first, finance,
                   mode, verbose, query, api_key, max_steps, events, tools,
                   tool_executors, messages, step, tool_calls, idx, llm_requests,
                   responses, invocations, dispatched, disconnected, gone_at,
                   outcome>>

\* The subscriber of the SSE stream goes away (a second run is given a
\* subscriber that stays, as the first was).
Disconnect ==
    /\ mode = "bridge"
    /\ first = <<>>
    /\ pc # "done"
    /\ ~disconnected
    /\ disconnected' = TRUE
    /\ gone_at' = <<[pc |-> pc, step |-> step]>>
    /\ UNCHANGED <<config, discoveries, exit, runs, endpoint, first, finance,
                   mode, verbose, query, api_key, max_steps, pc, events, tools,
                   tool_executors, messages, step, tool_calls, idx, llm_requests,
                   responses, invocations, dispatched, llm_state, close_count, outcome>>

\* ExitStatus with every return of _interactive_main taken for success.
ExitStatus_Zero(o) == Exited(0, <<>>)

\* How the one-shot cli process ends.  _interactive_main returns 2 when it
\* found no credential and 0 when run_closed_loop returned; an exception out
\* of run_closed_loop is caught neither there nor in main, which catches
\* KeyboardInterrupt only, so the interpreter writes the traceback, which
\* ends with the exception's message, and exits with status 1.
ExitStatus(o) ==
    IF o.kind = "rejected" THEN Exited(2, <<>>)
    ELSE IF o.raised THEN Exited(1, o.error)
    ELSE Exited(0, <<>>)

\* main: the process of a one-shot cli run ends.
Exit ==
    /\ mode = "cli"
    /\ pc = "done"
    /\ ~exit.exited
    /\ exit' = ExitStatus(outcome)
    /\ UNCHANGED <<config, discoveries, runs, endpoint, first, finance,
                   mode, verbose, query, api_key, max_steps, pc, events, tools,
                   tool_executors, messages, step, tool_calls, idx, llm_requests,
                   responses, invocations, dispatched, llm_state, close_count,
                   disconnected, gone_at, outcome>>

Next ==
    \/ Start
    \/ Discover
    \/ StepTop
    \/ LLMCall
    \/ Dispatch
    \/ Close
    \/ Disconnect
    \/ Exit

Spec == Init /\ [][Next]_vars

\* The same runs under every configuration of the credential, with a small
\* step budget.
InitConfig == InitRun(Configs, 0 .. ConfigStepsBound, WireMessages)

SpecConfig == InitConfig /\ [][Next]_vars

\* The steps of the run itself: everything but the subscriber's going away.
\* _chat_sse and run_closed_loop are straight-line coroutines, so a step
\* that can be taken is taken, provided the awaits on the tool server, on
\* the LLM endpoint and on the executors return or raise.
RunStep == Start \/ Discover \/ StepTop \/ LLMCall \/ Dispatch \/ Close \/ Exit

SpecFair == Init /\ [][Next]_vars /\ WF_vars(RunStep)

\* ======================================================================
\* Runs on every kind of argument string
\* ======================================================================

\* The largest step budget of these runs.
WireStepsBound == 1

\* The argument strings a call can come with: none, the empty string, JSON
\* objects, JSON values that are no objects, and a string that is no JSON.
ArgStrings ==
    {None, "", "{}", ARGS_X1, ARGS_LIST, ARGS_NUM, ARGS_STR, ARGS_NULL, ARGS_BAD}

\* The endpoint answers with one call of echo, or of the legacy shape of
\* it, on each of the argument strings, or with the final answer.
ArgMessages ==
    { WireMsg(None, <<WireCall("c1", "echo", a)>>, <<>>) : a \in ArgStrings }
    \cup { WireMsg(None, <<>>, <<[name |-> "echo", arguments |-> a]>>) : a \in ArgStrings }
    \cup { WireMsg("done", <<>>, <<>>) }

InitWire == InitRun(BaseConfigs, 0 .. WireStepsBound, ArgMessages)

SpecWire == InitWire /\ [][Next]_vars

\* ======================================================================
\* Two runs on the same inputs
\* ======================================================================

\* The largest step budget of the runs that are made twice.
TwinStepsBound == 2

\* The other surface.
Other(m) == IF m = "cli" THEN "bridge" ELSE "cli"

\* A response that carries both shapes of a tool call.
BothShapes ==
    { WireMsg(None, <<WireCall("c6", "echo", "{}")>>,
              <<[name |-> "quote", arguments |-> ARGS_X1]>>) }

\* Whether response resp is of the legacy shape.
IsLegacy(resp) == Modernised(resp) # resp

\* What the second run is for: "surface", the same inputs to the other
\* surface (run_closed_loop after _chat_sse or the reverse); "modern", the
\* same surface with every legacy response rewritten as the modern one.
TwinKinds == {"surface", "modern"}

InitTwin == InitRun(BaseConfigs, 0 .. TwinStepsBound, WireMessages \cup BothShapes)

\* A run that entered the loop and was not disconnected is over, and a
\* second run is started on the same query, credential, budget, tool
\* server, responses and executor outcomes.
SecondRun(kind) ==
    /\ first = <<>>
    /\ pc = "done"
    /\ ~disconnected
    /\ messages # <<>>
    /\ kind = "modern" => \E k \in 1 .. Len(responses) : IsLegacy(responses[k])
    /\ first' = << [kind |-> kind, mode |-> mode, discoveries |-> discoveries,
                    tool_executors |-> tool_executors, responses |-> responses,
                    dispatched |-> dispatched, messages |-> messages,
                    llm_requests |-> llm_requests, invocations |-> invocations,
                    events |-> events, outcome |-> outcome] >>
    /\ mode' = IF kind = "surface" THEN Other(mode) ELSE mode
    /\ pc' = "start"
    /\ events' = <<>>
    /\ tools' = <<>>
    /\ tool_executors' = <<>>
    /\ messages' = <<>>
    /\ step' = 0
    /\ tool_calls' = <<>>
    /\ idx' = 0
    /\ llm_requests' = <<>>
    /\ responses' = <<>>
    /\ invocations' = <<>>
    /\ dispatched' = <<>>
    /\ llm_state' = "none"
    /\ close_count' = 0
    /\ outcome' = Running
    /\ discoveries' = <<>>
    /\ exit' = NotExited
    /\ UNCHANGED <<verbose, query, config, api_key, max_steps, disconnected,
                   gone_at, runs, endpoint, finance>>

NextTwin ==
    \/ Next
    \/ \E kind \in TwinKinds : SecondRun(kind)

SpecTwin == InitTwin /\ [][NextTwin]_vars

\* ======================================================================
\* The finance client
\* ======================================================================

\* MCPFinanceClient of finance_mcp_client.py: the object's fields are
\* session (none; new, a ClientSession not yet initialised; ready; exited),
\* context (none; new, an sse_client context not yet entered; entered;
\* exited) and connected.  Each operation appends to log what it was, how
\* it ended (ok, or failed: the exception it caught), what it returned,
\* whether it used the session, and what connected was when it was called.

\* How many operations are made on the object.
FinanceOpsBound == 4

\* Every variable but finance.
loop == <<mode, verbose, query, config, api_key, max_steps, pc, events, tools,
          tool_executors, messages, step, tool_calls, idx, llm_requests,
          responses, invocations, dispatched, llm_state, close_count,
          disconnected, gone_at, outcome, discoveries, exit, runs, endpoint, first>>

InitFinance ==
    /\ mode = "cli"
    /\ verbose = FALSE
    /\ query = ""
    /\ config = [env |-> <<>>, yaml |-> <<>>, arg |-> <<>>]
    /\ api_key = ""
    /\ max_steps = 0
    /\ pc = "done"
    /\ events = <<>>
    /\ tools = <<>>
    /\ tool_executors = <<>>
    /\ messages = <<>>
    /\ step = 0
    /\ tool_calls = <<>>
    /\ idx = 0
    /\ llm_requests = <<>>
    /\ responses = <<>>
    /\ invocations = <<>>
    /\ dispatched = <<>>
    /\ llm_state = "none"
    /\ close_count = 0
    /\ disconnected = FALSE
    /\ gone_at = <<>>
    /\ outcome = Running
    /\ discoveries = <<>>
    /\ exit = NotExited
    /\ runs = <<>>
    /\ endpoint = {}
    /\ first = <<>>
    /\ finance = NewFinanceClient

\* One entry of the log.
Logged(op, result, returned, touched) ==
    [op |-> op, result |-> result, returned |-> returned, touched |-> touched,
     connected_before |-> finance.connected]

\* connect: the context is created and entered, the session created,
\* entered and initialised, and only then connected is set; an exception at
\* either await is caught and False returned, with what was assigned so far
\* left in place.
FinConnect ==
    /\ Len(finance.log) < FinanceOpsBound
    /\ \/ finance' = [finance EXCEPT
                         !.context = "new",
                         !.log = Append(@, Logged("connect", "failed", "False", FALSE))]
       \/ finance' = [finance EXCEPT
                         !.context = "entered",
                         !.session = "new",
                         !.log = Append(@, Logged("connect", "failed", "False", FALSE))]
       \/ finance' = [finance EXCEPT
                         !.context = "entered",
                         !.session = "ready",
                         !.connected = TRUE,
                         !.log = Append(@, Logged("connect", "ok", "True", FALSE))]
    /\ UNCHANGED loop

\* disconnect: the session, if there is one, is exited, then the context,
\* if there is one, and only then connected is cleared; an exception at
\* either await is caught, with connected left as it was.
FinDisconnect ==
    /\ Len(finance.log) < FinanceOpsBound
    /\ \/ /\ finance.session # "none"
          /\ finance' = [finance EXCEPT
                            !.log = Append(@, Logged("disconnect", "failed", None,
                                                     TRUE))]
       \/ /\ finance.context # "none"
          /\ finance' = [finance EXCEPT
                            !.session = IF @ = "none" THEN @ ELSE "exited",
                            !.log = Append(@, Logged("disconnect", "failed", None,
                                                     finance.session # "none"))]
       \/ finance' = [finance EXCEPT
                         !.session = IF @ = "none" THEN @ ELSE "exited",
                         !.context = IF @ = "none" THEN @ ELSE "exited",
                         !.connected = FALSE,
                         !.log = Append(@, Logged("disconnect", "ok", None,
                                                  finance.session # "none"))]
    /\ UNCHANGED loop

\* list_tools and call_tool: None at once when connected is false; else the
\* session is asked, and its answer returned, or None when it raises.
FinAsk(op, answer) ==
    /\ Len(finance.log) < FinanceOpsBound
    /\ IF ~finance.connected
       THEN finance' = [finance EXCEPT
                          !.log = Append(@, Logged(op, "ok", None, FALSE))]
       ELSE \/ finance' = [finance EXCEPT
                             !.log = Append(@, Logged(op, "ok", answer, TRUE))]
            \/ finance' = [finance EXCEPT
                             !.log = Append(@, Logged(op, "failed", None, TRUE))]
    /\ UNCHANGED loop

FinListTools == FinAsk("list_tools", "tools")

FinCallTool == FinAsk("call_tool", "response")

NextFinance ==
    \/ FinConnect
    \/ FinDisconnect
    \/ FinListTools
    \/ FinCallTool

SpecFinance == InitFinance /\ [][NextFinance]_vars

\* ======================================================================
\* Several runs
\* ======================================================================

\* The bridge serves every request with its own _chat_sse generator, and
\* the event loop interleaves the generators at their awaits; the cli's
\* interactive mode calls run_closed_loop once per line read, the next call
\* after the last has returned or raised.  The locals of run r are the
\* record runs[r]: pc, the query, the transcript (messages), the loop
\* variable (step), the request in flight (pending), the tool calls of the
\* step, what the endpoint answered to this run (received), what the
\* executors returned to it (returned), and how it ended.  The runs share
\* no list or dict: the module-level names are constants and the app.

\* How many runs there are.
RunCount == 2

\* The step budget of each of them.
RunStepsBound == 2

RunIds == 1 .. RunCount

\* The query of each run.
RunQuery(r) == <<"q1", "q2", "q3", "q4">>[r]

IdleRun(r) ==
    [pc |-> "idle", query |-> RunQuery(r), messages |-> <<>>, step |-> 0,
     pending |-> <<>>, tool_calls |-> <<>>, received |-> <<>>, returned |-> <<>>,
     outcome |-> "running"]

\* FirstMessages with the transcript of the run before kept as history.
FirstMessages_WithHistory(rs, r) ==
    (IF r > 1 THEN rs[r - 1].messages ELSE <<>>) \o SeedMessages(rs[r].query)

\* messages = [system prompt, user query]: the list a run starts with.
FirstMessages(rs, r) == SeedMessages(rs[r].query)

\* What the endpoint can answer to a posted transcript: a final answer, a
\* call of echo, or a failure.  The answer is to the last question asked:
\* its content, or the id of its call, repeats the user message.
AnswersTo(t) ==
    LET q == t[Len(SeedMessages(""))].content
    IN  { [status_code |-> 500, text |-> "upstream down", json |-> [choices |-> <<>>]],
          [status_code |-> 200, text |-> "",
           json |-> [choices |-> <<[message |-> <<WireMsg(q, <<>>, <<>>)>>]>>]],
          [status_code |-> 200, text |-> "",
           json |-> [choices |-> <<[message |->
                        <<WireMsg(None, <<WireCall(q, "echo", ARGS_X1)>>, <<>>)>>]>>]] }

\* The variables of the single run, which the several runs leave alone.
single == <<verbose, query, config, api_key, max_steps, pc, events, tools,
            tool_executors, messages, step, tool_calls, idx, llm_requests,
            responses, invocations, dispatched, llm_state, close_count,
            disconnected, gone_at, outcome, discoveries, exit, endpoint, first,
            finance>>

InitRuns ==
    /\ mode \in Modes
    /\ verbose = FALSE
    /\ query = ""
    /\ config = [env |-> <<"sk-1234">>, yaml |-> <<>>, arg |-> <<>>]
    /\ api_key = ResolveApiKey(mode, config)
    /\ max_steps = RunStepsBound
    /\ pc = "done"
    /\ events = <<>>
    /\ tools = <<>>
    /\ tool_executors = <<>>
    /\ messages = <<>>
    /\ step = 0
    /\ tool_calls = <<>>
    /\ idx = 0
    /\ llm_requests = <<>>
    /\ responses = <<>>
    /\ invocations = <<>>
    /\ dispatched = <<>>
    /\ llm_state = "none"
    /\ close_count = 0
    /\ disconnected = FALSE
    /\ gone_at = <<>>
    /\ outcome = Running
    /\ discoveries = <<>>
    /\ exit = NotExited
    /\ runs = [r \in RunIds |-> IdleRun(r)]
    /\ endpoint = WireMessages
    /\ first = <<>>
    /\ finance = NewFinanceClient

\* Run r begins: the bridge at any time, the cli's interactive loop once
\* the run before has returned or raised.  Discovery fails, or the
\* transcript is seeded.
RunBegin(r) ==
    /\ runs[r].pc = "idle"
    /\ (mode = "cli" /\ r > 1) => runs[r - 1].pc = "done"
    /\ \/ runs' = [runs EXCEPT ![r].pc = "done", ![r].outcome = "error"]
       \/ runs' = [runs EXCEPT ![r].pc = "step_top",
                               ![r].messages = FirstMessages(runs, r),
                               ![r].step = 1]
    /\ UNCHANGED <<mode, single>>

\* The top of the loop body of run r: the budget is used up, or the request
\* is posted with the run's transcript.
RunRequest(r) ==
    /\ runs[r].pc = "step_top"
    /\ IF RangeExhausted(runs[r].step, max_steps)
       THEN runs' = [runs EXCEPT ![r].pc = "done", ![r].outcome = "error"]
       ELSE runs' = [runs EXCEPT ![r].pc = "awaiting",
                                 ![r].pending = <<runs[r].messages>>]
    /\ UNCHANGED <<mode, single>>

\* The endpoint answers the request of run r, and the run goes on as far as
\* its first tool call.
RunResponse(r) ==
    /\ runs[r].pc = "awaiting"
    /\ \E resp \in AnswersTo(runs[r].pending[1]) :
        LET msg == _extract_message(resp.json)
            calls == _extract_tool_calls(msg[1])
            got == [runs EXCEPT ![r].received = Append(@, resp), ![r].pending = <<>>]
        IN  IF HttpFailed(resp) \/ msg = <<>>
            THEN runs' = [got EXCEPT ![r].pc = "done", ![r].outcome = "error"]
            ELSE IF calls = <<>>
            THEN runs' = [got EXCEPT ![r].pc = "done", ![r].outcome = "final"]
            ELSE runs' = [got EXCEPT ![r].pc = "dispatch",
                                     ![r].messages = Append(@, msg[1]),
                                     ![r].tool_calls = calls]
    /\ UNCHANGED <<mode, single>>

\* Run r handles the call of its step: the executor returns and the tool
\* message is appended, or it raises.
RunDispatch(r) ==
    /\ runs[r].pc = "dispatch"
    /\ LET call == runs[r].tool_calls[1]
           args == _safe_json_loads(ArgsStr(call))
       IN  \E o \in ExecutorOutcomes(call.function.name, ExecArgs(args)) :
            IF o.kind = "raise"
            THEN runs' = [runs EXCEPT ![r].pc = "done", ![r].outcome = "error"]
            ELSE runs' = [runs EXCEPT
                            ![r].pc = "step_top",
                            ![r].step = @ + 1,
                            ![r].returned = Append(@, o.value),
                            ![r].messages =
                                Append(@, ToolMessage(CallId(mode, call, runs[r].step, 1),
                                                      o.value))]
    /\ UNCHANGED <<mode, single>>

NextRuns ==
    \E r \in RunIds :
        \/ RunBegin(r)
        \/ RunRequest(r)
        \/ RunResponse(r)
        \/ RunDispatch(r)

SpecRuns == InitRuns /\ [][NextRuns]_vars

\* ======================================================================
\* The claims
\* ======================================================================

Last(s) == s[Len(s)]

Ended == pc \in {"closing", "done"}

\* The terminal events of the data model: final, error, cancelled.
IsTerminal(e) == e.type \in {"final", "error", "cancelled"}

\* ------------------------------------------------------------------ C1

CarriesNoToolCalls(m) == m.tool_calls = <<>> /\ m.function_call = <<>>

\* The assistant message of response k, as a sequence of length 0 or 1.
AssistantMessage(k) ==
    IF responses[k].status_code # 200 \/ responses[k].json.choices = <<>> THEN <<>>
    ELSE responses[k].json.choices[1].message

\* The text content of a message, trimmed ("" when it has none).
TextContent(m) ==
    IF m.content = None THEN "" ELSE IF m.content = " hi " THEN "hi" ELSE m.content

FinalCount == Cardinality({i \in 1 .. Len(events) : events[i].type = "final"})

\* C2: if the assistant response of step k carries no tool calls, then k is
\* within the budget, the run has ended in FINAL with the message's text,
\* request k was the last LLM request, and (bridge) the stream ends with
\* response(k) followed by its one final event, (cli) the last line printed
\* is the final text.
C2_FinalAtStep ==
    \A k \in 1 .. Len(responses) :
        (AssistantMessage(k) # <<>> /\ CarriesNoToolCalls(AssistantMessage(k)[1])) =>
            LET text == TextContent(AssistantMessage(k)[1])
                n == Len(events)
            IN  /\ k <= max_steps
                /\ k = Len(responses)
                /\ Len(llm_requests) = k
                /\ llm_requests[k].step = k
                /\ Ended
                /\ outcome = Final(text)
                /\ mode = "bridge" =>
                    /\ FinalCount = 1
                    /\ events[n] = FinalEvent(text)
                    /\ events[n - 1].type = "deepseek_response"
                    /\ events[n - 1].step = k
                /\ mode = "cli" =>
                    events[n] = [type |-> "print", line |-> "final_text", content |-> text]

\* A bridge run that ended at step 2 with a final event whose text was
\* trimmed.
C2_Witness ==
    /\ mode = "bridge"
    /\ pc = "done"
    /\ Len(responses) = 2
    /\ outcome = Final("hi")
    /\ Last(events) = FinalEvent("hi")

\* ------------------------------------------------------------------ C3

\* Whether response k is an assistant message with at least one tool call.
CarriesToolCalls(k) ==
    AssistantMessage(k) # <<>> /\ ~CarriesNoToolCalls(AssistantMessage(k)[1])

IsBudgetError(o) ==
    o.kind = "error" /\ o.error \in {MsgBudgetBridge(max_steps), MsgBudgetCli(max_steps)}

\* C3 as stated: a finished run that was not cancelled, with max_steps = N
\* >= 1, in which every LLM request was answered by an assistant message
\* with at least one tool call, has issued exactly N LLM requests and has
\* ended with the step-budget error, whose reason differs from the
\* empty-response and the upstream reasons.
C3_BudgetAfterNRequests ==
    (/\ pc = "done"
     /\ max_steps >= 1
     /\ messages # <<>>
     /\ outcome.kind # "cancelled"
     /\ \A k \in 1 .. Len(responses) : CarriesToolCalls(k)) =>
        /\ Len(llm_requests) = max_steps
        /\ IsBudgetError(outcome)
        /\ outcome.error \notin {MSG_EMPTY_BRIDGE, MSG_EMPTY_CLI}
        /\ outcome.error[1] # "DeepSeek HTTP "

\* ------------------------------------------------------------------ C4

\* The position of the nearest assistant message before position i.
RECURSIVE PrecedingAssistant(_)
PrecedingAssistant(i) ==
    IF i <= 1 THEN 0
    ELSE IF messages[i - 1].role = "assistant" THEN i - 1
    ELSE PrecedingAssistant(i - 1)

\* C4 as stated: each tool-role message's tool_call_id is the id of an
\* entry of the tool_calls list of the nearest preceding assistant message.
C4_NoOrphanToolResults ==
    \A i \in 1 .. Len(messages) :
        messages[i].role = "tool" =>
            LET j == PrecedingAssistant(i)
            IN  /\ j > 0
                /\ \E c \in 1 .. Len(messages[j].tool_calls) :
                       messages[j].tool_calls[c].id = messages[i].tool_call_id

\* ------------------------------------------------------------------ C5

\* Whether a tool-role message carries an error payload.
HasErrorPayload(m) == "error" \in DOMAIN m.content.json.v

\* C5 as stated: an executor that raised has not ended the run: its
\* failure is in the transcript as the error payload of that call's
\* tool-role message, and the run has not ended with that exception.
C5_ExecutorFailureCaptured ==
    \A d \in 1 .. Len(dispatched) :
        dispatched[d].outcome = "raise" =>
            /\ dispatched[d].msg_index > 0
            /\ HasErrorPayload(messages[dispatched[d].msg_index])
            /\ outcome.kind # "error"
               \/ outcome.error # <<"tool call failed: ", dispatched[d].name>>

\* ------------------------------------------------------------------ C6

\* The dispatched calls whose argument string is not valid JSON.
Malformed(d) == dispatched[d].args_str = ARGS_BAD

RawObject(str) == [kind |-> "dict", v |-> [_raw |-> str]]

\* The executor invocation made for dispatched call d, as a set.
InvocationsOf(d) ==
    {v \in 1 .. Len(invocations) :
        invocations[v].step = dispatched[d].step /\ invocations[v].idx = dispatched[d].idx}

Unknown(d) == dispatched[d].outcome = "not_found"

C8_CancelHaltsBeforeRequest ==
    /\ [][(mode = "bridge" /\ pc = "step_top" /\ disconnected /\ step <= max_steps) =>
            /\ pc' = "closing"
            /\ outcome' = Cancelled
            /\ events' = events
            /\ llm_requests' = llm_requests
            /\ messages' = messages
            /\ invocations' = invocations]_vars
    /\ [][outcome.kind = "cancelled" =>
            /\ outcome' = outcome
            /\ events' = events
            /\ llm_requests' = llm_requests
            /\ messages' = messages
            /\ invocations' = invocations]_vars

\* A bridge run cancelled between step 2 and step 3: two LLM requests were
\* issued, the third was not, and the stream ends with step 2's last tool
\* result.
C8_Witness ==
    /\ mode = "bridge"
    /\ pc = "done"
    /\ outcome.kind = "cancelled"
    /\ max_steps >= 3
    /\ step = 3
    /\ Len(llm_requests) = 2
    /\ Last(events).type = "tool_result"

\* ------------------------------------------------------------------ C9

\* The tool names response k asks for, in the order the model gave them.
CallNames(k) ==
    LET m == AssistantMessage(k)[1]
    IN  IF m.tool_calls # <<>>
        THEN [i \in 1 .. Len(m.tool_calls) |-> m.tool_calls[i].function.name]
        ELSE IF m.function_call # <<>> THEN <<m.function_call[1].name>>
        ELSE <<>>

RequestCount ==
    Cardinality({i \in 1 .. Len(events) : events[i].type = "deepseek_request"})

\* The order of the bridge's step events, but for what follows a tool_call
\* event: request(k) is emitted before LLM call k is made and response(k)
\* comes right after request(k); the events between response(k) and
\* request(k+1) are the tool_call and tool_result events of step k's calls,
\* pairwise and in model order; a final event comes right after a response.
OrderOfSteps ==
    /\ Len(llm_requests) \in {RequestCount - 1, RequestCount}
    /\ Len(llm_requests) = RequestCount - 1 <=> pc = "llm_call"
    /\ \A i \in 1 .. Len(events) :
        LET e == events[i]
        IN  /\ e.type = "deepseek_request" =>
                /\ i > 1
                /\ e.step = 1 <=> events[i - 1].type = "tools"
                /\ e.step = Cardinality({j \in 1 .. i : events[j].type = "deepseek_request"})
                /\ e.step > 1 =>
                    LET c == Len(CallNames(e.step - 1))
                        r == i - 2 * c - 1
                    IN  /\ c > 0
                        /\ r >= 1
                        /\ events[r].type = "deepseek_response"
                        /\ events[r].step = e.step - 1
                        /\ \A j \in 1 .. c :
                            /\ events[r + 2 * j - 1].type = "tool_call"
                            /\ events[r + 2 * j - 1].name = CallNames(e.step - 1)[j]
                            /\ events[r + 2 * j].type = "tool_result"
                            /\ events[r + 2 * j].name = CallNames(e.step - 1)[j]
            /\ e.type = "deepseek_response" =>
                /\ events[i - 1].type = "deepseek_request"
                /\ events[i - 1].step = e.step
                /\ Len(llm_requests) >= e.step
            /\ e.type = "tool_call" =>
                events[i - 1].type \in {"deepseek_response", "tool_result"}
            /\ e.type = "tool_result" =>
                /\ events[i - 1].type = "tool_call"
                /\ events[i - 1].name = e.name
            /\ e.type = "final" =>
                /\ i = Len(events)
                /\ events[i - 1].type = "deepseek_response"
                /\ events[i - 1].step = Len(llm_requests)

\* C9 as stated: the bridge's step events are in causal order, and every
\* tool_call event is followed by its own tool_result event.
C9_CausalOrder ==
    mode = "bridge" =>
        /\ OrderOfSteps
        /\ \A i \in 1 .. Len(events) :
            events[i].type = "tool_call" =>
                /\ i < Len(events)
                /\ events[i + 1].type = "tool_result"
                /\ events[i + 1].name = events[i].name

\* What the code does keep of C9: the same order, with a tool_call event
\* followed by its own tool_result event or, when the executor raised, by
\* the error event that ends the stream.
C9_OrderedUnlessRaised ==
    mode = "bridge" =>
        /\ OrderOfSteps
        /\ \A i \in 1 .. Len(events) :
            events[i].type = "tool_call" =>
                /\ i < Len(events)
                /\ \/ /\ events[i + 1].type = "tool_result"
                      /\ events[i + 1].name = events[i].name
                   \/ /\ events[i + 1].type = "error"
                      /\ i + 1 = Len(events)
                      /\ Last(dispatched).outcome = "raise"

\* The end-to-end example of the specification, reached by the bridge.
C9_ExampleReached ==
    /\ mode = "bridge"
    /\ ~verbose
    /\ Len(events) = 10
    /\ [i \in 1 .. 10 |-> events[i].type] =
           <<"meta", "status", "tools", "deepseek_request", "deepseek_response",
             "tool_call", "tool_result", "deepseek_request", "deepseek_response", "final">>
    /\ events[6] = ToolCallEvent("echo", [kind |-> "dict", v |-> [x |-> "1"]], ARGS_X1)
    /\ events[7] = ToolResultEvent("echo", [kind |-> "dict", v |-> [x |-> "1"]])
    /\ events[10] = FinalEvent("done")

\* ----------------------------------------------------------------- C10

\* Where the assistant message of step k stands in a transcript that grew
\* as C10 says.
RECURSIVE StepStart(_)
StepStart(k) ==
    IF k = 1 THEN Len(SeedMessages(query)) + 1
    ELSE StepStart(k - 1) + 1 + Len(CallNames(k - 1))

\* The id response k gives its i-th call (None when it gives none).
WireId(k, i) ==
    LET m == AssistantMessage(k)[1]
    IN  IF m.tool_calls # <<>> THEN m.tool_calls[i].id ELSE None

\* Whether the transcript holds, for step k, the assistant message followed
\* by one tool-role message per tool call, in model order, the i-th with the
\* call id and the serialized result of the i-th call.
StepGrewTranscript(k) ==
    LET j == StepStart(k)
        c == Len(CallNames(k))
    IN  /\ Len(messages) >= j + c
        /\ messages[j] = AssistantMessage(k)[1]
        /\ \A i \in 1 .. c :
            \E d \in 1 .. Len(dispatched) :
                /\ dispatched[d].step = k
                /\ dispatched[d].idx = i
                /\ dispatched[d].name = CallNames(k)[i]
                /\ WireId(k, i) # None => dispatched[d].call_id = WireId(k, i)
                /\ messages[j + i] = [role |-> "tool",
                                      tool_call_id |-> dispatched[d].call_id,
                                      content |-> [json |-> dispatched[d].result]]
        /\ Len(messages) > j + c => messages[j + c + 1].role = "assistant"

\* C10 as stated: every tool-dispatch step that is over (the loop went on
\* to the next step, or the run ended) grew the transcript by exactly the
\* assistant message and one tool message per call.
C10_StepGrowsTranscript ==
    \A k \in 1 .. Len(responses) :
        (CarriesToolCalls(k) /\ (step > k \/ Ended)) => StepGrewTranscript(k)

\* What the code does keep of C10: the same for every step whose calls all
\* returned.
C10_CompletedStepGrowsTranscript ==
    \A k \in 1 .. Len(responses) :
        (CarriesToolCalls(k) /\ step > k) => StepGrewTranscript(k)

\* ----------------------------------------------------------------- C11

\* Whether the id of dispatched call d was generated by the loop or by
\* _extract_tool_calls: the model gave the call no id, or sent it in the
\* legacy function_call shape.
Generated(d) == WireId(dispatched[d].step, dispatched[d].idx) = None

\* C11 as stated: the generated call ids of a run are pairwise distinct.
C11_GeneratedIdsDistinct ==
    \A d1, d2 \in 1 .. Len(dispatched) :
        (d1 # d2 /\ Generated(d1) /\ Generated(d2)) =>
            dispatched[d1].call_id # dispatched[d2].call_id

\* What the code does keep of C11: the ids the cli generates for id-less
\* entries of tool_calls arrays are pairwise distinct, and so are the ids
\* the bridge generates for id-less calls of different steps.
C11_DistinctAcrossSteps ==
    \A d1, d2 \in 1 .. Len(dispatched) :
        (/\ d1 # d2
         /\ Generated(d1)
         /\ Generated(d2)
         /\ dispatched[d1].call_id # "legacy_function_call"
         /\ mode = "bridge" => dispatched[d1].step # dispatched[d2].step) =>
            dispatched[d1].call_id # dispatched[d2].call_id

\* Two id-less calls of one step were given the same id by the bridge.
C11_SameStepReached ==
    \E d1, d2 \in 1 .. Len(dispatched) :
        /\ d1 # d2
        /\ mode = "bridge"
        /\ dispatched[d1].step = dispatched[d2].step
        /\ dispatched[d1].call_id = "call_1"
        /\ dispatched[d2].call_id = "call_1"

\* Two legacy calls of different steps were given the same id.
C11_LegacyReached ==
    \E d1, d2 \in 1 .. Len(dispatched) :
        /\ dispatched[d1].step # dispatched[d2].step
        /\ dispatched[d1].call_id = "legacy_function_call"
        /\ dispatched[d2].call_id = "legacy_function_call"

\* ----------------------------------------------------------------- C12

\* The transcript as it stood when the request of step k was formed.
TranscriptAt(k) == SubSeq(messages, 1, StepStart(k) - 1)

\* C12 as stated: every request body holds the whole transcript; it holds
\* the tool schema and tool_choice "auto" when at least one tool is
\* registered, and neither field when the discovered tool list is empty.
C12_RequestBody ==
    \A r \in 1 .. Len(llm_requests) :
        LET p == llm_requests[r].payload
        IN  /\ llm_requests[r].step = r
            /\ p.messages = TranscriptAt(r)
            /\ tools # <<>> => (p.tools = <<tools>> /\ p.tool_choice = <<"auto">>)
            /\ tools = <<>> => (p.tools = <<>> /\ p.tool_choice = <<>>)

\* What the code does keep of C12: every request body holds the whole
\* transcript, the discovered tool list, empty or not, and tool_choice
\* "auto".
C12_RequestBodyAsSent ==
    \A r \in 1 .. Len(llm_requests) :
        LET p == llm_requests[r].payload
        IN  /\ llm_requests[r].step = r
            /\ p.model = DEFAULT_DEEPSEEK_MODEL
            /\ p.messages = TranscriptAt(r)
            /\ p.tools = <<tools>>
            /\ p.tool_choice = <<"auto">>

\* The cli has posted a request with an empty tools field and tool_choice
\* "auto".
C12_EmptyToolsSent ==
    /\ mode = "cli"
    /\ tools = <<>>
    /\ Len(llm_requests) >= 1
    /\ llm_requests[1].payload.tools = << <<>> >>
    /\ llm_requests[1].payload.tool_choice = <<"auto">>

\* ----------------------------------------------------------------- C13

\* The requests posted for step k.
RequestsOfStep(k) == {r \in 1 .. Len(llm_requests) : llm_requests[r].step = k}

\* C13: when the endpoint answers the request of step k with a status that
\* is not 2xx, that request was the only one posted for step k and the last
\* of the run, the transcript is what that request carried, no tool call of
\* step k or later was handled, and the run is over with an error that
\* carries the status code and the response body: the bridge's last event
\* is that error, the cli lets it out as an exception.
C13_UpstreamFailureFatal ==
    \A k \in 1 .. Len(responses) :
        responses[k].status_code \notin 200 .. 299 =>
            LET e == <<"DeepSeek HTTP ", ToString(responses[k].status_code), ": ",
                       responses[k].text>>
            IN  /\ k = Len(responses)
                /\ Len(llm_requests) = k
                /\ RequestsOfStep(k) = {k}
                /\ messages = llm_requests[k].payload.messages
                /\ \A d \in 1 .. Len(dispatched) : dispatched[d].step < k
                /\ \A v \in 1 .. Len(invocations) : invocations[v].step < k
                /\ Ended
                /\ outcome = Failed(e, mode = "cli")
                /\ mode = "bridge" =>
                    /\ Last(events) = ErrorEvent(e)
                    /\ events[Len(events) - 1].type = "deepseek_request"
                    /\ events[Len(events) - 1].step = k

\* A bridge run whose second request was answered with status 500: it is
\* over, two requests were posted, and its last event is the error with the
\* status and the body.
C13_Witness ==
    /\ mode = "bridge"
    /\ pc = "done"
    /\ Len(responses) = 2
    /\ responses[2].status_code = 500
    /\ Last(events) = ErrorEvent(<<"DeepSeek HTTP ", "500", ": ", "upstream down">>)
    /\ Len(messages) > 2

\* ----------------------------------------------------------------- C14

\* Whether response k is a success that holds no assistant message: no
\* choices, or a first choice whose message is missing or empty.
NoAssistantMessage(k) ==
    /\ responses[k].status_code \in 200 .. 299
    /\ \/ responses[k].json.choices = <<>>
       \/ responses[k].json.choices[1].message = <<>>

\* The bridge's response and final events for step k.
ResponseEventsOfStep(k) ==
    {i \in 1 .. Len(events) : events[i].type = "deepseek_response" /\ events[i].step = k}

\* C14: when the response of step k holds no assistant message, the run is
\* over with the empty-response error, request k was the last request, the
\* transcript is what that request carried, and the bridge has emitted no
\* response event for step k and no final event: its last event is the
\* error, right after request(k).  The cli raises; the last line it printed
\* is the announcement of step k or, when verbose, the dump of the response
\* body it made before looking for the message.
C14_EmptyResponseFatal ==
    \A k \in 1 .. Len(responses) :
        NoAssistantMessage(k) =>
            /\ k = Len(responses)
            /\ Len(llm_requests) = k
            /\ messages = llm_requests[k].payload.messages
            /\ \A d \in 1 .. Len(dispatched) : dispatched[d].step < k
            /\ Ended
            /\ outcome.kind = "error"
            /\ mode = "bridge" =>
                /\ outcome = Failed(<<"DeepSeek returned an empty message">>, FALSE)
                /\ Last(events) = ErrorEvent(<<"DeepSeek returned an empty message">>)
                /\ events[Len(events) - 1].type = "deepseek_request"
                /\ events[Len(events) - 1].step = k
                /\ ResponseEventsOfStep(k) = {}
                /\ FinalCount = 0
            /\ mode = "cli" =>
                /\ outcome = Failed(<<"DeepSeek returned an empty message, cannot continue">>, TRUE)
                /\ \A i \in 1 .. Len(events) : events[i].line # "final_text"
                /\ ~verbose => Last(events) = [type |-> "print", line |-> "step", step |-> k]
                /\ verbose => Last(events) = [type |-> "print", line |-> "raw_response",
                                              json |-> responses[k].json]

\* A bridge run whose second response had a first choice without a
\* message: it is over with the empty-response error after two requests.
C14_Witness ==
    /\ mode = "bridge"
    /\ pc = "done"
    /\ Len(responses) = 2
    /\ responses[2].status_code = 200
    /\ responses[2].json.choices # <<>>
    /\ responses[2].json.choices[1].message = <<>>
    /\ Last(events) = ErrorEvent(MSG_EMPTY_BRIDGE)

\* ----------------------------------------------------------------- C15

\* No credential is configured: DEEPSEEK_API_KEY is unset or blank in the
\* environment, env.yaml has no entry for it or a blank or a null one, and
\* none was passed on the command line.
NoCredentialConfigured(cfg) ==
    /\ cfg.env = <<>> \/ cfg.env[1] \in {"", "  "}
    /\ cfg.yaml = <<>> \/ cfg.yaml[1] \in {YamlStr(""), YamlStr("  "), YamlNull}
    /\ cfg.arg = <<>>

\* Whether the run was turned away for want of a credential, before
\* anything else happened.
RejectedForCredential ==
    /\ pc = "done"
    /\ outcome.error = MSG_MISSING_KEY
    /\ outcome.kind = (IF mode = "bridge" THEN "error" ELSE "rejected")
    /\ events = (IF mode = "bridge" THEN <<ErrorEvent(MSG_MISSING_KEY)>>
                 ELSE <<Line("missing_key")>>)
    /\ discoveries = <<>>
    /\ llm_requests = <<>>
    /\ llm_state = "none"

\* C15 as stated: a run that has a query and no configured credential is
\* rejected with the configuration error before tool discovery and before
\* any LLM request.
C15_NoCredentialRejected ==
    (NoCredentialConfigured(config) /\ query # "" /\ pc # "start") =>
        RejectedForCredential

\* What the code does keep of C15: the same, unless the env.yaml entry is
\* null.
C15_RejectedUnlessNull ==
    (/\ NoCredentialConfigured(config)
     /\ config.yaml # <<YamlNull>>
     /\ query # ""
     /\ pc # "start") => RejectedForCredential

\* With a null entry in env.yaml and nothing in the environment, the run
\* took the word None for its credential, discovered the tools and posted
\* an LLM request.
C15_NullEntryAccepted ==
    /\ config = [env |-> <<>>, yaml |-> <<YamlNull>>, arg |-> <<>>]
    /\ api_key = "None"
    /\ discoveries # <<>>
    /\ Len(llm_requests) = 1

\* ----------------------------------------------------------------- C16

\* The credentials a run can resolve.
Credentials == {ResolveApiKey(m, cfg) : m \in Modes, cfg \in Configs} \ {""}

\* The output of the run that differs from this one in its credential
\* only: same surface, query, budget, verbosity, discovery, LLM responses
\* and tool results.  The credential is read when the run starts, for the
\* blank test and for the cli's banner, and after that only to fill the
\* Authorization header of the LLM requests.
OutputUnder(key) ==
    IF events = <<>> THEN <<>>
    ELSE StartOutput(mode, query, key, max_steps) \o Tail(events)

\* C16 as stated: the output of a run that has a credential is the output
\* of the same run under any other credential.
C16_OutputIndependentOfKey ==
    api_key # "" => \A key \in Credentials : OutputUnder(key) = events

\* What the code does keep of C16: the bridge's events are the same under
\* every credential; the cli's lines are the same but for the banner, which
\* shows the credential masked by _redact, never the credential itself.
C16_OnlyBannerDepends ==
    (api_key # "" /\ events # <<>>) =>
        \A key \in Credentials :
            /\ mode = "bridge" => OutputUnder(key) = events
            /\ mode = "cli" =>
                /\ Tail(OutputUnder(key)) = Tail(events)
                /\ events[1] = [type |-> "print", line |-> "banner",
                                api_key |-> _redact(api_key)]
                /\ events[1].api_key # api_key

\* The banner of a cli run under the credential sk-5678 ends in the last
\* four characters of the credential, and under sk-1234 it would end in
\* 1234.
C16_BannerShowsKeyEnd ==
    /\ mode = "cli"
    /\ api_key = "sk-5678"
    /\ pc = "done"
    /\ events[1].api_key = "***5678"
    /\ OutputUnder("sk-1234")[1].api_key = "***1234"

\* ----------------------------------------------------------------- C17

\* The assistant message of the k-th response run r received.
ReceivedMessage(r, k) == runs[r].received[k].json.choices[1].message[1]

\* Whether a message of a transcript bears the mark of query q: the
\* endpoint's answers repeat the question they answer, as their content or
\* as the id of their call, and a tool message repeats the id of its call.
MarkedBy(m, q) ==
    IF m.role = "tool" THEN m.tool_call_id = q
    ELSE IF m.role = "assistant"
    THEN IF m.tool_calls # <<>> THEN m.tool_calls[1].id = q ELSE m.content = q
    ELSE m.role = "user" => m.content = q

\* C17: whether the runs are interleaved (bridge) or follow one another,
\* failed runs included (cli), the transcript of each run that has one
\* starts with the system prompt and the run's own query, and goes on with
\* the assistant messages of the responses this run received and the tool
\* messages of the results its executors returned, in order, and with
\* nothing else: no message of it bears the mark of another run's query.
C17_RunsIndependent ==
    \A r \in DOMAIN runs :
        LET run == runs[r]
            n == Len(run.messages)
        IN  run.messages # <<>> =>
                /\ n >= 2
                /\ run.messages[1] = [role |-> "system", content |-> SYSTEM_PROMPT]
                /\ run.messages[2] = [role |-> "user", content |-> run.query]
                /\ \A i \in 3 .. n :
                    LET k == (i - 1) \div 2
                    IN  IF i % 2 = 1
                        THEN /\ k <= Len(run.received)
                             /\ run.messages[i] = ReceivedMessage(r, k)
                        ELSE /\ k <= Len(run.returned)
                             /\ run.messages[i] =
                                    [role |-> "tool", tool_call_id |-> run.query,
                                     content |-> [json |-> run.returned[k]]]
                /\ \A i \in 1 .. n :
                    /\ MarkedBy(run.messages[i], run.query)
                    /\ \A r2 \in DOMAIN runs \ {r} :
                        run.messages[i].role # "system" =>
                            ~MarkedBy(run.messages[i], runs[r2].query)

\* Two bridge runs side by side: the first is handling the call of its
\* first step while the second, begun later, has been through a step and
\* awaits the answer to its second request.
C17_Witness ==
    /\ mode = "bridge"
    /\ Len(runs) >= 2
    /\ runs[1].pc = "dispatch"
    /\ runs[1].step = 1
    /\ runs[2].pc = "awaiting"
    /\ runs[2].step = 2
    /\ Len(runs[2].messages) = 4

\* In the cli's interactive mode a run that raised was followed by a run
\* that went through a step and returned a final text.
C17_AfterFailedRunReached ==
    /\ mode = "cli"
    /\ Len(runs) >= 2
    /\ runs[1].outcome = "error"
    /\ Len(runs[1].messages) = 3
    /\ runs[2].outcome = "final"
    /\ Len(runs[2].messages) = 4

\* ----------------------------------------------------------------- C18

\* C18: the process of a one-shot cli run exits with status 0 exactly when
\* the run ended in FINAL, and then the final text is the last line it
\* printed; a run that found no credential has printed the complaint and
\* exits with status 2; every run that raised (discovery failure, upstream
\* failure, empty response, failing executor, step budget used up) exits
\* with status 1 and the exception's message on stderr.
C18_ExitStatus ==
    (mode = "cli" /\ exit.exited) =>
        /\ pc = "done"
        /\ outcome.kind \in {"final", "rejected", "error"}
        /\ exit.status = 0 <=> outcome.kind = "final"
        /\ outcome.kind = "final" =>
            /\ Last(events) = [type |-> "print", line |-> "final_text",
                               content |-> outcome.text]
            /\ exit.stderr = <<>>
        /\ outcome.kind = "rejected" =>
            /\ exit.status = 2
            /\ api_key = ""
            /\ events = <<Line("missing_key")>>
        /\ outcome.kind = "error" =>
            /\ exit.status = 1
            /\ outcome.raised
            /\ exit.stderr # <<>>
            /\ exit.stderr = outcome.error
            /\ \/ outcome.error = MsgBudgetCli(max_steps)
               \/ outcome.error = MSG_EMPTY_CLI
               \/ outcome.error[1] = "DeepSeek HTTP "
               \/ outcome.error[1] = "MCP server: "
               \/ outcome.error[1] = "tool call failed: "

\* A one-shot cli run that used up a budget of two steps: the process has
\* exited with status 1 and the budget error on stderr.
C18_Witness ==
    /\ mode = "cli"
    /\ exit.exited
    /\ max_steps = 2
    /\ Len(llm_requests) = 2
    /\ exit.status = 1
    /\ exit.stderr = MsgBudgetCli(2)

\* ----------------------------------------------------------------- C19

DiscoveryFailed(kind) == kind \in {"connect_failed", "list_failed"}

IsMinimal(e) ==
    /\ e.type = "tools" => e.tools = <<>>
    /\ e.type = "deepseek_request" => "messages" \notin DOMAIN e.preview
    /\ e.type = "deepseek_response" =>
        /\ "content" \in DOMAIN e.message => e.message.content = None
        /\ "tool_calls" \in DOMAIN e.message =>
               \A c \in 1 .. Len(e.message.tool_calls) :
                   "arguments" \notin DOMAIN e.message.tool_calls[c].function
    /\ e.type = "tool_call" =>
        /\ "arguments" \notin DOMAIN e
        /\ "raw_arguments" \notin DOMAIN e
    /\ e.type = "tool_result" => "result" \notin DOMAIN e

\* C20 as stated: every event of a bridge run that is not verbose carries a
\* summary only.
C20_NonVerboseMinimal ==
    (mode = "bridge" /\ ~verbose) => \A i \in 1 .. Len(events) : IsMinimal(events[i])

\* What the code does keep of C20: when the run is not verbose, the tools
\* event carries the count and no schema, and the request event the model
\* name and the tool count and no transcript; when it is verbose, they
\* carry the schema and the transcript.
C20_SchemaAndTranscriptWithheld ==
    mode = "bridge" =>
        \A i \in 1 .. Len(events) :
            LET e == events[i]
            IN  /\ e.type = "tools" =>
                    /\ e.count = Len(tools)
                    /\ e.tools = (IF verbose THEN <<tools>> ELSE <<>>)
                /\ e.type = "deepseek_request" =>
                    /\ e.preview.tools_count = Len(tools)
                    /\ "messages" \in DOMAIN e.preview <=> verbose
                    /\ verbose => e.preview.messages = TranscriptAt(e.step)

\* A bridge run that is not verbose has emitted a response event with the
\* assistant message's content and the call with its arguments, a
\* tool_call event with the parsed and the raw arguments, and a tool_result
\* event with the whole result.
C20_FullPayloadsReached ==
    /\ mode = "bridge"
    /\ ~verbose
    /\ Len(events) >= 7
    /\ events[5] = [type |-> "deepseek_response", step |-> 1,
                    message |-> [role |-> "assistant", content |-> "looking",
                                 tool_calls |-> <<WireCall("c2", "nope", ARGS_X1)>>]]
    /\ events[6] = [type |-> "tool_call", name |-> "nope",
                    arguments |-> [kind |-> "dict", v |-> [x |-> "1"]],
                    raw_arguments |-> ARGS_X1]
    /\ events[7].type = "tool_result"
    /\ events[7].result = NotFoundResult("nope", tool_executors)


\* ----------------------------------------------------------------- C21

\* The run is over: the generator, or run_closed_loop, has been left with
\* a final text, an error or a cancellation (the cli's refusal for lack of
\* a credential is its error before the loop).
Terminated ==
    /\ pc = "done"
    /\ outcome.kind \in {"final", "error", "cancelled", "rejected"}

\* C21: provided every await returns or raises, every run eventually is
\* over, in FINAL, ERROR or CANCELLED, and stays so with the same outcome
\* from then on: no run loops forever.
C21_Terminates ==
    /\ <>[]Terminated
    /\ [][Terminated => (Terminated' /\ outcome' = outcome)]_vars

\* A run that made tool calls over two steps and is over.
C21_Witness ==
    /\ Terminated
    /\ Len(llm_requests) >= 2
    /\ invocations # <<>>
    /\ outcome.kind = "final"


\* ----------------------------------------------------------------- C22

\* The tool calls response k asks for, as the loop sees them.
CallsOf(k) == _extract_tool_calls(AssistantMessage(k)[1])

\* C22: a step that issues an LLM request issues one, the request of the
\* next step in order, when every earlier request has been answered, and
\* the run has its answer before it does anything else; every tool call of
\* the step before has completed by then, and its tool message stands in
\* the transcript the request carries.
C22_SequentialWithBarrier ==
    [][llm_requests' # llm_requests =>
        LET r == Last(llm_requests')
            k == r.step
        IN  /\ llm_requests' = Append(llm_requests, r)
            /\ Len(responses) = Len(llm_requests)
            /\ Len(responses') = Len(llm_requests')
            /\ k = Len(llm_requests) + 1
            /\ k > 1 =>
                \A i \in 1 .. Len(CallsOf(k - 1)) :
                    \E d \in 1 .. Len(dispatched) :
                        /\ dispatched[d].step = k - 1
                        /\ dispatched[d].idx = i
                        /\ dispatched[d].outcome \in {"ok", "not_found"}
                        /\ dispatched[d].msg_index \in 1 .. Len(r.payload.messages)
                        /\ r.payload.messages[dispatched[d].msg_index]
                               = ToolMessage(dispatched[d].call_id, dispatched[d].result)
    ]_vars

\* The request of step 2 was issued after a step of two tool calls.
C22_Witness ==
    /\ Len(llm_requests) >= 2
    /\ Len(CallsOf(1)) = 2
    /\ Len(llm_requests[2].payload.messages) = Len(SeedMessages(query)) + 3


\* ----------------------------------------------------------------- C23

\* Whether transcript t begins with transcript s, message for message.
Extends(t, s) == Len(t) >= Len(s) /\ SubSeq(t, 1, Len(s)) = s

\* C23: the transcript is created as the system message followed by the
\* user's query; every later step leaves the messages it holds as they are
\* and where they are; and a step that ends the run (FINAL, ERROR,
\* CANCELLED) appends nothing, the final assistant message included.
C23_SeededAppendOnly ==
    [][/\ (messages = <<>> /\ messages' # <<>>) =>
              messages' = << [role |-> "system", content |-> SYSTEM_PROMPT],
                             [role |-> "user", content |-> query] >>
       /\ messages # <<>> => Extends(messages', messages)
       /\ (outcome = Running /\ outcome' # Running) => messages' = messages
    ]_vars

\* A run that ended in FINAL after a step with a tool call: the transcript
\* ends with that step's tool message, not with the final assistant message.
C23_Witness ==
    /\ pc = "done"
    /\ outcome.kind = "final"
    /\ Len(llm_requests) = 2
    /\ Len(messages) = 4
    /\ Last(messages).role = "tool"
    /\ AssistantMessage(2)[1].content = "done"


\* ----------------------------------------------------------------- C24

\* The subscriber went away in the middle of step k: after the check at
\* the top of the step, while the request or a tool call was due.
WentDuringStep(k) ==
    /\ gone_at # <<>>
    /\ gone_at[1].pc \in {"llm_call", "dispatch"}
    /\ gone_at[1].step = k

\* Step k ran to its end: its request was issued, each of its calls was
\* handled, and its assistant and tool messages stand in the transcript.
StepCompleted(k) ==
    /\ RequestsOfStep(k) # {}
    /\ \A i \in 1 .. Len(CallsOf(k)) :
        \E d \in 1 .. Len(dispatched) :
            /\ dispatched[d].step = k
            /\ dispatched[d].idx = i
            /\ dispatched[d].outcome \in {"ok", "not_found"}
    /\ StepGrewTranscript(k)

\* C24: the bridge looks for the disconnect at the top of every step,
\* before the request, and nowhere else.  A request is issued with the
\* subscriber gone only if the subscriber went after the check of that very
\* step; the run is cancelled only by a check at a step's top that finds the
\* subscriber gone; a run cancelled after the subscriber went during step k
\* completed step k and was cancelled at the top of step k + 1; and after
\* the cancellation there is no request, no executor call, no append.
C24_CheckedAtStepTopOnly ==
    /\ [][(mode = "bridge" /\ llm_requests' # llm_requests /\ disconnected) =>
              (gone_at[1].pc = "llm_call" /\ gone_at[1].step = step)]_vars
    /\ [][(outcome # Cancelled /\ outcome' = Cancelled) =>
              (mode = "bridge" /\ pc = "step_top" /\ disconnected)]_vars
    /\ [](\A k \in 1 .. MaxStepsBound :
              (outcome = Cancelled /\ WentDuringStep(k)) =>
                  (step = k + 1 /\ Len(llm_requests) = k /\ StepCompleted(k)))
    /\ [][outcome = Cancelled =>
              UNCHANGED <<llm_requests, invocations, dispatched, messages>>]_vars

\* The subscriber went after the check of step 1 and before its request;
\* the request was issued all the same, both tool calls of the step were
\* made and their messages appended, and the run was cancelled at the top
\* of step 2.
C24_Witness ==
    /\ mode = "bridge"
    /\ pc = "done"
    /\ outcome = Cancelled
    /\ gone_at = <<[pc |-> "llm_call", step |-> 1]>>
    /\ Len(llm_requests) = 1
    /\ Len(invocations) = 2
    /\ Len(messages) = Len(SeedMessages(query)) + 3


\* ----------------------------------------------------------------- C25

\* A transcript message with the legacy shape of its call rewritten as the
\* modern one.
ModernMessage(m) ==
    IF m.role # "assistant" THEN m
    ELSE IF m.tool_calls # <<>> THEN m
    ELSE [m EXCEPT !.tool_calls = << [id |-> "legacy_function_call",
                                      type |-> "function",
                                      function |->
                                          [name |-> m.function_call[1].name,
                                           arguments |->
                                               IF m.function_call[1].arguments = None
                                               THEN "{}"
                                               ELSE m.function_call[1].arguments]] >>,
                   !.function_call = <<>>]

\* Whether message m names a function in the legacy field.
NamesLegacyCall(m) ==
    m.function_call # <<>> /\ m.function_call[1].name \notin {None, ""}

AtLeastZero(n) == IF n > 0 THEN n ELSE 0

\* C26: whatever integer max_steps is, negative and zero included, a run
\* issues at most max(0, max_steps) LLM requests; and with max_steps <= 0 it
\* issues no request, handles no tool call, and a run that came as far as
\* the loop leaves it at once with the step-budget error.
C26_RequestsWithinBudget ==
    /\ Len(llm_requests) <= AtLeastZero(max_steps)
    /\ max_steps <= 0 =>
        /\ llm_requests = <<>>
        /\ dispatched = <<>>
        /\ invocations = <<>>
        /\ pc \notin {"llm_call", "dispatch"}
        /\ (messages # <<>> /\ Ended) =>
               /\ IsBudgetError(outcome)
               /\ messages = SeedMessages(query)

\* A run with max_steps = -1 that came to the loop and ended with the
\* step-budget error, and no request.
C26_Witness ==
    /\ max_steps = -1
    /\ pc = "done"
    /\ messages # <<>>
    /\ llm_requests = <<>>
    /\ IsBudgetError(outcome)


\* ----------------------------------------------------------------- C27

\* Whether every tool call of the responses rs carries an id.
EveryCallHasId(rs) ==
    \A k \in 1 .. Len(rs) :
        (rs[k].json.choices # <<>> /\ rs[k].json.choices[1].message # <<>>) =>
            LET m == rs[k].json.choices[1].message[1]
            IN  \A i \in 1 .. Len(m.tool_calls) : m.tool_calls[i].id \notin {None, ""}

SameErrorReason(e1, e2) ==
    \/ e1 = e2
    \/ {e1, e2} = {MsgBudgetBridge(max_steps), MsgBudgetCli(max_steps)}
    \/ {e1, e2} = {MSG_EMPTY_BRIDGE, MSG_EMPTY_CLI}

\* How the cli's run, outcome c with the lines ls, and the bridge's run,
\* outcome b with the events es, correspond: the final text printed and
\* returned against the final event, the exception raised against the
\* error event, each the last thing of its run.
Corresponds(c, ls, b, es) ==
    /\ c.kind = b.kind
    /\ c.kind \in {"final", "error"}
    /\ c.kind = "final" =>
        /\ c.text = b.text
        /\ Last(es) = FinalEvent(b.text)
        /\ SubSeq(ls, Len(ls) - Len(LineFinal(c.text)) + 1, Len(ls)) = LineFinal(c.text)
    /\ c.kind = "error" =>
        /\ c.raised
        /\ ~b.raised
        /\ SameErrorReason(c.error, b.error)
        /\ Last(es) = ErrorEvent(b.error)

ObjectFor(a) ==
    IF a \in {None, ""} THEN EmptyObj
    ELSE IF a = "{}" THEN EmptyObj
    ELSE IF a = ARGS_X1 THEN [x |-> "1"]
    ELSE IF a \in {ARGS_LIST, ARGS_NUM, ARGS_STR, ARGS_NULL} THEN EmptyObj
    ELSE [_raw |-> a]

\* The argument string response k gives its i-th call.
WireArguments(k, i) ==
    LET m == AssistantMessage(k)[1]
    IN  IF m.tool_calls # <<>> THEN m.tool_calls[i].function.arguments
        ELSE m.function_call[1].arguments

\* C28: every call whose executor was found had the executor invoked, once,
\* with the object that the call's argument string stands for: the parsed
\* object, the empty object for no string, the empty string and JSON that
\* is no object, and {"_raw": string} for a string that is no JSON.
C28_ExecutorGivenObject ==
    /\ \A d \in 1 .. Len(dispatched) :
        dispatched[d].outcome # "not_found" =>
            /\ Cardinality(InvocationsOf(d)) = 1
            /\ \A n \in InvocationsOf(d) :
                   invocations[n].args
                       = ObjectFor(WireArguments(dispatched[d].step, dispatched[d].idx))
    /\ \A n \in 1 .. Len(invocations) :
        \E d \in 1 .. Len(dispatched) :
            dispatched[d].outcome # "not_found" /\ n \in InvocationsOf(d)

\* echo's executor was invoked with the empty object for the argument
\* string "null", and returned.
C28_Witness ==
    \E d \in 1 .. Len(dispatched) :
        /\ dispatched[d].args_str = ARGS_NULL
        /\ dispatched[d].outcome = "ok"
        /\ \E n \in InvocationsOf(d) : invocations[n].args = EmptyObj


\* ----------------------------------------------------------------- C29

\* C29: the LLM client is never closed twice; a run that constructed it and
\* is over, however it ended, has closed it once; a run that did not
\* construct it closed nothing; and a request is issued on an open client
\* only, never once it was closed.
C29_ClientClosedOnce ==
    /\ [](/\ close_count <= 1
          /\ llm_state = "none" => close_count = 0
          /\ llm_state = "closed" <=> close_count = 1
          /\ (pc = "done" /\ llm_state # "none") => llm_state = "closed")
    /\ [][llm_requests' # llm_requests => (llm_state = "open" /\ llm_state' = "open")]_vars
    /\ [][llm_state = "closed" => (llm_state' = "closed" /\ llm_requests' = llm_requests)]_vars

\* A run ended by an executor's exception after its request, with the
\* client closed once.
C29_Witness ==
    /\ pc = "done"
    /\ outcome.kind = "error"
    /\ dispatched # <<>>
    /\ Last(dispatched).outcome = "raise"
    /\ llm_requests # <<>>
    /\ llm_state = "closed"
    /\ close_count = 1


\* ----------------------------------------------------------------- C30

\* The operations of kind op in the log.
Ops(op) == {i \in 1 .. Len(finance.log) : finance.log[i].op = op}

\* The last connect in the log (0 when there is none).
LastConnect ==
    IF Ops("connect") = {} THEN 0
    ELSE CHOOSE i \in Ops("connect") : \A j \in Ops("connect") : j <= i

\* Whether list_tools and call_tool used the session only with connected
\* true, and returned None otherwise.
AsksGuarded ==
    \A i \in Ops("list_tools") \cup Ops("call_tool") :
        /\ finance.log[i].touched => finance.log[i].connected_before
        /\ ~finance.log[i].connected_before => finance.log[i].returned = None

\* C30 as stated: connected is true only if the most recent connect
\* succeeded and no disconnect was attempted since, and list_tools and
\* call_tool use the session only when connected is true, returning None
\* otherwise.
C30_ConnectedOnlyIfLive ==
    /\ finance.connected =>
        /\ LastConnect > 0
        /\ finance.log[LastConnect].result = "ok"
        /\ \A i \in Ops("disconnect") : i < LastConnect
    /\ AsksGuarded

\* What the code keeps: connected is true only if some connect succeeded
\* and no disconnect has succeeded since, and the asks are guarded by it.
C30_ConnectedSinceSomeConnect ==
    /\ finance.connected =>
        \E c \in Ops("connect") :
            /\ finance.log[c].result = "ok"
            /\ \A i \in Ops("disconnect") : i > c => finance.log[i].result = "failed"
    /\ AsksGuarded

\* The menu's "reconnect" after a good start: the disconnect fails, the
\* connect fails, and the next query uses the session that is left.
C30_StaleSessionAsked ==
    /\ Len(finance.log) = 4
    /\ finance.log[1].op = "connect" /\ finance.log[1].result = "ok"
    /\ finance.log[2].op = "disconnect" /\ finance.log[2].result = "failed"
    /\ finance.log[3].op = "connect" /\ finance.log[3].result = "failed"
    /\ finance.log[4].op = "call_tool" /\ finance.log[4].touched
    /\ finance.session # "ready"

====
